---- MODULE Spec2Model ----
(***************************************************************************)
(* RAG-EDR: quarantine vault, vector-store quarantine flag, event log,     *)
(* query lineage and the protected query pipeline, as a state machine.     *)
(*                                                                         *)
(* Scores are integers in tenths (5 stands for 0.5).  A quarantine id      *)
(* "Q-<ts>-<doc_id>" is the pair <<ts, doc_id>>, ts the UTC second.        *)
(* The server is one asyncio event loop: a task keeps the loop until it    *)
(* awaits real I/O (the HTTP call of llm.generate); `running` is the task  *)
(* that holds the loop, 0 when the loop is free.                           *)
(***************************************************************************)
EXTENDS Integers, Sequences, FiniteSets, TLC

VARIABLES
    now,        \* datetime.utcnow(), in whole seconds
    corpus,     \* ingested documents: doc_id -> integrity signals of the document
    store,      \* vector store metadata: doc_id -> [cve_ids, is_quarantined, quarantine_id]
    vault,      \* vault directory: files content.txt, metadata.json, record.json, audit.jsonl per quarantine id
    events,     \* logs/events.jsonl
    lineage,    \* logs/query_lineage.jsonl
    task,       \* one protected query per task: position and locals of RAGPipeline.query
    running,    \* the task that holds the event loop (0: none)
    llm_calls,  \* calls received by the generation collaborator: query_id -> context documents
    ops,        \* number of analyst actions carried out
    lastOp,     \* the analyst request served last, with the state it started from
    call        \* a call of a pure function: its arguments and its result

vars == <<now, corpus, store, vault, events, lineage, task, running, llm_calls, ops, lastOp, call>>
sysvars == <<now, corpus, store, vault, events, lineage, task, running, llm_calls, ops, lastOp>>

-----------------------------------------------------------------------------
(* Bounds of the model *)

NumDocs == 2
MaxQueries == 2
MaxTime == 1
MaxAnalystOps == 2
MaxSig == 4
MaxWrites == 2
MaxLines == 3
MaxLimit == 2
MaxHours == 1
NumStoreDocs == 4
MaxQueryCount == 21
MaxUserCount == 11
MaxFlags == 2
MaxTokens == 3
MaxBoost == 3
MaxLogged == 22
MaxPolls == 2

(* Program constants *)

INTEGRITY_THRESHOLD == 5
OVERFETCH == 3

Docs == 1..NumDocs
Queries == 1..MaxQueries
Times == 0..MaxTime
Users == {"alice", "bob"}
Analysts == {"analyst"}
Ks == {1, 2}

Min(a, b) == IF a < b THEN a ELSE b
Last(s) == s[Len(s)]
Prefix(s, n) == SubSeq(s, 1, Min(n, Len(s)))
Range(s) == {s[i] : i \in 1..Len(s)}
IsPrefix(s, t) == Len(s) <= Len(t) /\ SubSeq(t, 1, Len(s)) = s

RECURSIVE Perms(_)
Perms(S) ==
    IF S = {} THEN {<<>>}
    ELSE UNION {{<<x>> \o p : p \in Perms(S \ {x})} : x \in S}

-----------------------------------------------------------------------------
(* schemas.py *)

QuarantineState == {"DETECTED", "QUARANTINED", "CONFIRMED_MALICIOUS", "RESTORED"}

Signals(t, r, a, s) ==
    [trust_score |-> t, red_flag_score |-> r, anomaly_score |-> a, semantic_drift_score |-> s]

B2I(b) == IF b THEN 1 ELSE 0

\* a signal equal to the threshold counted as low
should_quarantine_at_or_below(sig, threshold) ==
    LET below_threshold ==
            B2I(sig.trust_score <= threshold)
          + B2I(sig.red_flag_score <= threshold)
          + B2I(sig.anomaly_score <= threshold)
          + B2I(sig.semantic_drift_score <= threshold)
    IN  below_threshold >= 2

should_quarantine(sig, threshold) ==
    LET below_threshold ==
            B2I(sig.trust_score < threshold)
          + B2I(sig.red_flag_score < threshold)
          + B2I(sig.anomaly_score < threshold)
          + B2I(sig.semantic_drift_score < threshold)
    IN  below_threshold >= 2

\* config.SIGNAL_WEIGHTS, in hundredths
SIGNAL_WEIGHTS == [trust |-> 25, red_flag |-> 35, anomaly |-> 15, semantic |-> 25]

\* the weights of trust and red_flag exchanged
combined_score_weights_exchanged(sig) ==
    LET weights == SIGNAL_WEIGHTS
    IN  sig.trust_score * weights.red_flag + sig.red_flag_score * weights.trust
      + sig.anomaly_score * weights.anomaly + sig.semantic_drift_score * weights.semantic

\* in hundredths of the unit of the signals
combined_score(sig) ==
    LET weights == SIGNAL_WEIGHTS
    IN  sig.trust_score * weights.trust + sig.red_flag_score * weights.red_flag
      + sig.anomaly_score * weights.anomaly + sig.semantic_drift_score * weights.semantic

add_audit_entry(record, action, actor, notes, ts) ==
    [record EXCEPT !.audit_trail = Append(@,
        [timestamp |-> ts, action |-> action, actor |-> actor, notes |-> notes,
         previous_state |-> record.state])]

-----------------------------------------------------------------------------
(* adapters/vector_store.py *)

NoFilter == ""
EmptyQid == <<>>      \* metadata["quarantine_id"] = "" (as ingested)
NoKey == <<0>>        \* metadata has no key "quarantine_id" (popped by restore)

CveOf(d) == IF d = 1 THEN "CVE-2024-0004" ELSE ""
ContentOf(d) == d

ingest_document(d) ==
    [cve_ids |-> CveOf(d), is_quarantined |-> FALSE, quarantine_id |-> EmptyQid]

Doc(st, d) == [doc_id |-> d, content |-> ContentOf(d), metadata |-> st[d]]

\* collection.query: the n_results nearest documents among those the where clause keeps
collection_query(st, ranking, n_results, metadata_filter) ==
    LET Keeps(d) == d \in DOMAIN st /\ (metadata_filter = NoFilter \/ st[d].cve_ids = metadata_filter)
    IN  Prefix(SelectSeq(ranking, Keeps), n_results)

\* collection.query refuses n_results = 0, which min(n_results, count()) gives on
\* an empty collection
retrieve_raises(st, k, exclude_quarantined) ==
    Min(IF exclude_quarantined THEN k * OVERFETCH ELSE k, Cardinality(DOMAIN st)) <= 0

\* the is_quarantined flag is not looked at
retrieve_ignoring_flag(st, ranking, k, exclude_quarantined, metadata_filter) ==
    LET n_results == IF exclude_quarantined THEN k * OVERFETCH ELSE k
        results == collection_query(st, ranking, Min(n_results, Cardinality(DOMAIN st)), metadata_filter)
        ids == Prefix(results, k)
    IN  [j \in 1..Len(ids) |-> Doc(st, ids[j])]

VectorStore_retrieve(st, ranking, k, exclude_quarantined, metadata_filter) ==
    LET n_results == IF exclude_quarantined THEN k * OVERFETCH ELSE k
        results == collection_query(st, ranking, Min(n_results, Cardinality(DOMAIN st)), metadata_filter)
        Kept(d) == ~(exclude_quarantined /\ st[d].is_quarantined)
        ids == Prefix(SelectSeq(results, Kept), k)
    IN  [j \in 1..Len(ids) |-> Doc(st, ids[j])]

\* the metadata update is lost
mark_quarantined_not_written(st, doc_id, quarantine_id) == st

VectorStore_mark_quarantined(st, doc_id, quarantine_id) ==
    IF doc_id \notin DOMAIN st THEN st
    ELSE [st EXCEPT ![doc_id].is_quarantined = TRUE, ![doc_id].quarantine_id = quarantine_id]

\* the flag is left set
restore_document_not_written(st, doc_id) == st

VectorStore_restore_document(st, doc_id) ==
    IF doc_id \notin DOMAIN st THEN st
    ELSE [st EXCEPT ![doc_id].is_quarantined = FALSE, ![doc_id].quarantine_id = NoKey]

-----------------------------------------------------------------------------
(* response/quarantine_vault.py *)

QuarantineId(ts, doc_id) == <<ts, doc_id>>
Qids == Times \X Docs

EmptyVault == [content_txt |-> <<>>, metadata_json |-> <<>>, record_json |-> <<>>, audit_jsonl |-> <<>>]

Exists(v, qid) == qid \in DOMAIN v.record_json

\* open(q_dir / "audit.jsonl", "a")
append_audit(v, qid, audit_entry) ==
    [v EXCEPT !.audit_jsonl =
        (qid :> Append(IF qid \in DOMAIN @ THEN @[qid] ELSE <<>>, audit_entry)) @@ @]

QuarantineVault_quarantine_document(v, doc_id, content, metadata, integrity_signals, reason, ts) ==
    LET quarantine_id == QuarantineId(ts, doc_id)
        record == add_audit_entry(
            [quarantine_id |-> quarantine_id, doc_id |-> doc_id, state |-> "QUARANTINED",
             quarantined_at |-> ts, reason |-> reason, integrity_scores |-> integrity_signals,
             original_content |-> content, metadata |-> metadata, audit_trail |-> <<>>],
            "QUARANTINED", "system", reason, ts)
        written == [v EXCEPT !.content_txt = (quarantine_id :> content) @@ @,
                             !.metadata_json = (quarantine_id :> metadata) @@ @,
                             !.record_json = (quarantine_id :> record) @@ @]
    IN  append_audit(written, quarantine_id, Last(record.audit_trail))

\* the audit trail started afresh with the entry of the analyst action
Transition_dropping_trail(record, state, analyst, notes, ts) ==
    add_audit_entry([record EXCEPT !.state = state, !.audit_trail = <<>>], state, analyst, notes, ts)

\* the record as rewritten by an analyst action; the state is assigned before
\* add_audit_entry reads it
Transition(record, state, analyst, notes, ts) ==
    add_audit_entry([record EXCEPT !.state = state], state, analyst, notes, ts)

QuarantineVault_confirm_malicious(v, quarantine_id, analyst, notes, ts) ==
    LET record == Transition(v.record_json[quarantine_id], "CONFIRMED_MALICIOUS", analyst, notes, ts)
        written == [v EXCEPT !.record_json[quarantine_id] = record]
    IN  append_audit(written, quarantine_id, Last(record.audit_trail))

\* returns the vault and the vector store after the call
QuarantineVault_restore_document(v, st, quarantine_id, analyst, notes, ts) ==
    LET record == Transition(v.record_json[quarantine_id], "RESTORED", analyst, notes, ts)
        written == [v EXCEPT !.record_json[quarantine_id] = record]
    IN  [vault |-> append_audit(written, quarantine_id, Last(record.audit_trail)),
         store |-> VectorStore_restore_document(st, record.doc_id)]

-----------------------------------------------------------------------------
(* logging/event_logger.py, response/blast_radius.py *)

Event(event_id, level, category, user_id, query_id, doc_id, quarantine_id, action) ==
    [event_id |-> event_id, level |-> level, category |-> category, user_id |-> user_id,
     query_id |-> query_id, doc_id |-> doc_id, quarantine_id |-> quarantine_id, action |-> action]

\* the file opened for writing instead of appending
log_event_truncating(log, event) == <<event>>

\* the line is put before the lines of the file
log_event_prepending(log, event) == <<event>> \o log

log_event(log, event) == Append(log, event)

log_integrity_check(log, query_id, doc_id, quarantined, user_id) ==
    log_event(log,
        Event(IF quarantined THEN 1003 ELSE 1001,
              IF quarantined THEN "Error" ELSE "Information",
              "Integrity", user_id, query_id, doc_id, EmptyQid, ""))

event_id_map(action) ==
    CASE action = "initiated" -> 2001
      [] action = "confirmed" -> 2002
      [] action = "restored" -> 2003
      [] action = "state_changed" -> 2004
      [] OTHER -> 2001

log_quarantine_action(log, quarantine_id, doc_id, action, analyst) ==
    log_event(log,
        Event(event_id_map(action),
              IF action = "initiated" THEN "Warning" ELSE "Information",
              "Quarantine", IF analyst = "" THEN "system" ELSE analyst,
              0, doc_id, quarantine_id, action))

\* the event is not written
log_system_event_dropped(log, event_id, query_id) == log

log_system_event(log, event_id, query_id) ==
    log_event(log, Event(event_id, "Information", "System", "", query_id, 0, EmptyQid, ""))

QueryLineage(query_id, ts, user_id, retrieved_docs, integrity_signals, action_taken) ==
    [query_id |-> query_id, timestamp |-> ts, user_id |-> user_id, retrieved_docs |-> retrieved_docs,
     integrity_signals |-> integrity_signals, action_taken |-> action_taken]

\* no lineage for a query whose documents were all quarantined
log_query_unless_quarantine(log, query_id, user_id, retrieved_docs, integrity_signals, action_taken, ts) ==
    IF action_taken = "quarantine" THEN log
    ELSE Append(log, QueryLineage(query_id, ts, user_id, retrieved_docs, integrity_signals, action_taken))

log_query(log, query_id, user_id, retrieved_docs, integrity_signals, action_taken, ts) ==
    Append(log, QueryLineage(query_id, ts, user_id, retrieved_docs, integrity_signals, action_taken))

log_blast_radius(log, doc_id, severity) ==
    log_event(log,
        Event(IF severity \in {"HIGH", "CRITICAL"} THEN 3002 ELSE 3003,
              IF severity \in {"HIGH", "CRITICAL"} THEN "Warning" ELSE "Information",
              "BlastRadius", "system", 0, doc_id, EmptyQid, ""))

-----------------------------------------------------------------------------
(* The JSONL files as read back: a line is a complete record, a blank line, or
   a torn line that does not parse *)

JsonLine(record) == [kind |-> "json", record |-> record]
BlankLine(record) == [kind |-> "blank", record |-> record]
TornLine(record) == [kind |-> "torn", record |-> record]

\* the file a log holds: every line was written whole by model_dump_json / to_jsonl
Lines(log) == [n \in 1..Len(log) |-> JsonLine(log[n])]

strip(line) == IF line.kind = "blank" THEN "" ELSE line.kind

\* <<record>>, or <<>> where model_validate_json raises
model_validate_json(line) == IF line.kind = "json" THEN <<line.record>> ELSE <<>>

Reverse(s) == [n \in 1..Len(s) |-> s[Len(s) + 1 - n]]

-----------------------------------------------------------------------------
(* logging/event_logger.py: EventLogger.read_events *)

NoLevel == ""

\* the loop over reversed(lines); `found` is the list built so far
RECURSIVE read_events_loop(_, _, _, _)
read_events_loop(lines, limit, level, found) ==
    IF lines = <<>> THEN found
    ELSE LET line == Head(lines)
             parsed == model_validate_json(line)
         IN  IF strip(line) = "" \/ parsed = <<>>
             THEN read_events_loop(Tail(lines), limit, level, found)
             ELSE IF level = NoLevel \/ parsed[1].level = level
                  THEN LET events1 == Append(found, parsed[1])
                       IN  IF Len(events1) >= limit THEN events1
                           ELSE read_events_loop(Tail(lines), limit, level, events1)
                  ELSE read_events_loop(Tail(lines), limit, level, found)

\* a missing log file is the empty sequence of lines
read_events(lines, limit, level) ==
    IF lines = <<>> THEN <<>>
    ELSE read_events_loop(Reverse(lines), limit, level, <<>>)

-----------------------------------------------------------------------------
(* response/blast_radius.py: BlastRadiusAnalyzer *)

SECONDS_PER_HOUR == 3600
LINEAGE_LOOKBACK_HOURS == 24
datetime_min == -1

BLAST_RADIUS_THRESHOLDS ==
    [LOW |-> [queries |-> 0, users |-> 0],
     MEDIUM |-> [queries |-> 1, users |-> 1],
     HIGH |-> [queries |-> 5, users |-> 3],
     CRITICAL |-> [queries |-> 20, users |-> 10]]

\* MEDIUM needs a query or a user, not both
calculate_severity_medium_either(query_count, user_count) ==
    LET thresholds == BLAST_RADIUS_THRESHOLDS
    IN  IF query_count >= thresholds.CRITICAL.queries \/ user_count >= thresholds.CRITICAL.users
        THEN "CRITICAL"
        ELSE IF query_count >= thresholds.HIGH.queries \/ user_count >= thresholds.HIGH.users
        THEN "HIGH"
        ELSE IF query_count >= thresholds.MEDIUM.queries \/ user_count >= thresholds.MEDIUM.users
        THEN "MEDIUM"
        ELSE "LOW"

calculate_severity(query_count, user_count) ==
    LET thresholds == BLAST_RADIUS_THRESHOLDS
    IN  IF query_count >= thresholds.CRITICAL.queries \/ user_count >= thresholds.CRITICAL.users
        THEN "CRITICAL"
        ELSE IF query_count >= thresholds.HIGH.queries \/ user_count >= thresholds.HIGH.users
        THEN "HIGH"
        ELSE IF query_count >= thresholds.MEDIUM.queries /\ user_count >= thresholds.MEDIUM.users
        THEN "MEDIUM"
        ELSE "LOW"

Recommendation(text, subject) == [text |-> text, subject |-> subject]

generate_recommendations(severity, user_count, doc_id) ==
    <<Recommendation("Review query lineage log for document", doc_id),
      Recommendation("Notify affected user(s) about potentially compromised guidance", user_count)>>
    \o (IF severity \in {"HIGH", "CRITICAL"}
        THEN <<Recommendation("Conduct full security audit of recent actions", 0),
               Recommendation("Review any remediation steps taken based on this document", 0),
               Recommendation("Consider investigating document source for additional compromised content", 0),
               Recommendation("Escalate to security incident response team", 0)>>
        ELSE <<>>)
    \o (IF severity = "CRITICAL"
        THEN <<Recommendation("Initiate emergency response protocol", 0),
               Recommendation("Audit all user sessions in affected time window", 0),
               Recommendation("Consider temporary suspension of affected document source", 0)>>
        ELSE <<>>)

NO_AFFECTED_QUERIES == Recommendation("No affected queries found in lookback window", 0)

\* an Optional value is a sequence of at most one element
None == <<>>

\* the declared fields of the pydantic model; a keyword argument that names no
\* declared field is ignored, a declared field not given takes its default
BlastRadiusReportFields ==
    {"doc_id", "file_path", "affected_queries", "affected_users", "time_window_start",
     "time_window_end", "severity", "recommended_actions", "query_details"}

BlastRadiusReport(kwargs) ==
    [f \in BlastRadiusReportFields |-> IF f \in DOMAIN kwargs THEN kwargs[f] ELSE None]

empty_report(doc_id, utcnow) ==
    BlastRadiusReport(
        [doc_id |-> doc_id, affected_queries |-> 0, affected_users |-> {},
         time_window_start |-> utcnow, time_window_end |-> utcnow,
         severity |-> "LOW", recommended_actions |-> <<NO_AFFECTED_QUERIES>>])

\* a doc_id is a file stem; Stem gives its hyphen-separated parts
Stem(doc_id) == IF doc_id = 1 THEN <<"advisory">> ELSE <<"poisoned", ToString(doc_id), "advisory">>

\* the directory name "Q-<timestamp>-<doc_id>", in hyphen-separated parts
DirName(quarantine_id) == <<"Q", ToString(quarantine_id[1])>> \o Stem(quarantine_id[2])

IsSuffix(s, t) == Len(s) <= Len(t) /\ SubSeq(t, Len(t) - Len(s) + 1, Len(t)) = s

\* VAULT_DIR.glob("*-<doc_id>"): the directories whose name ends in "-<doc_id>"
glob(v, doc_id) == {qid \in DOMAIN v.content_txt : IsSuffix(Stem(doc_id), DirName(qid))}

\* the directory the glob yields first, in the order of the directory listing
glob_first(v, doc_id) == IF glob(v, doc_id) = {} THEN {None} ELSE {<<qid>> : qid \in glob(v, doc_id)}

ContentPath(quarantine_id) == <<quarantine_id, "content.txt">>

\* a row stamped exactly at the cutoff left out
scan_lineage_after_cutoff(lines, doc_id, cutoff_time, acc) ==
    LET Hit(line) == /\ line.kind = "json"
                     /\ doc_id \in Range(line.record.retrieved_docs)
                     /\ line.record.timestamp > cutoff_time
        hits == SelectSeq(lines, Hit)
        stamps == {hits[n].record.timestamp : n \in 1..Len(hits)}
    IN  [affected_queries |-> [n \in 1..Len(hits) |-> hits[n].record.query_id],
         affected_users |-> {hits[n].record.user_id : n \in 1..Len(hits)},
         earliest_time |-> IF hits = <<>> THEN acc.earliest_time
                           ELSE CHOOSE t \in stamps : \A u \in stamps : t <= u,
         latest_time |-> IF hits = <<>> THEN acc.latest_time
                         ELSE CHOOSE t \in stamps : \A u \in stamps : t >= u]

\* the scan of the lineage log: `acc` holds affected_queries, affected_users,
\* earliest_time and latest_time
RECURSIVE scan_lineage(_, _, _, _)
scan_lineage(lines, doc_id, cutoff_time, acc) ==
    IF lines = <<>> THEN acc
    ELSE LET line == Head(lines)
             parsed == model_validate_json(line)
             rest == Tail(lines)
         IN  IF strip(line) = "" \/ parsed = <<>>
             THEN scan_lineage(rest, doc_id, cutoff_time, acc)
             ELSE LET row == parsed[1]
                  IN  IF doc_id \in Range(row.retrieved_docs) /\ row.timestamp >= cutoff_time
                      THEN scan_lineage(rest, doc_id, cutoff_time,
                               [affected_queries |-> Append(acc.affected_queries, row.query_id),
                                affected_users |-> acc.affected_users \cup {row.user_id},
                                earliest_time |-> IF row.timestamp < acc.earliest_time
                                                  THEN row.timestamp ELSE acc.earliest_time,
                                latest_time |-> IF row.timestamp > acc.latest_time
                                                THEN row.timestamp ELSE acc.latest_time])
                      ELSE scan_lineage(rest, doc_id, cutoff_time, acc)

\* a missing lineage log is the empty sequence of lines; q_dir is the directory
\* the glob over the vault yields first, None when it yields nothing
analyze_impact(lines, doc_id, lookback_hours, utcnow, v, q_dir) ==
    IF lines = <<>> THEN empty_report(doc_id, utcnow)
    ELSE LET cutoff_time == utcnow - lookback_hours * SECONDS_PER_HOUR
             found == scan_lineage(lines, doc_id, cutoff_time,
                          [affected_queries |-> <<>>, affected_users |-> {},
                           earliest_time |-> utcnow, latest_time |-> datetime_min])
             severity == calculate_severity(Len(found.affected_queries),
                                            Cardinality(found.affected_users))
             recommendations == generate_recommendations(severity,
                                    Cardinality(found.affected_users), doc_id)
             has_record == q_dir # None /\ q_dir[1] \in DOMAIN v.record_json
             file_path == IF q_dir # None THEN <<ContentPath(q_dir[1])>> ELSE None
             integrity_signals == IF has_record THEN <<v.record_json[q_dir[1]].integrity_scores>>
                                  ELSE None
             quarantine_reason == IF has_record THEN <<v.record_json[q_dir[1]].reason>> ELSE None
         IN  BlastRadiusReport(
                 [doc_id |-> doc_id, file_path |-> file_path,
                  affected_queries |-> Len(found.affected_queries),
                  affected_users |-> found.affected_users,
                  time_window_start |-> IF found.affected_queries # <<>>
                                        THEN found.earliest_time ELSE utcnow,
                  time_window_end |-> IF found.affected_queries # <<>>
                                      THEN found.latest_time ELSE utcnow,
                  severity |-> severity, recommended_actions |-> recommendations,
                  query_details |-> found.affected_queries,
                  integrity_signals |-> integrity_signals,
                  quarantine_reason |-> quarantine_reason])

-----------------------------------------------------------------------------
(* The corpus: what IntegrityEngine.evaluate_document computes for a document *)

T == INTEGRITY_THRESHOLD
Profiles == {
    Signals(T + 3, T + 3, T + 3, T + 3),    \* clean
    Signals(T - 4, T - 2, T + 3, T + 3) }   \* poisoned source with red flags

evaluate_document(c, doc_id) == c[doc_id]

-----------------------------------------------------------------------------
(* pipeline.py: RAGPipeline.query, one task per request *)

NO_DOCUMENTS == "No documents available to answer this query."
SAFETY_MESSAGE == "This query cannot be answered safely at this moment."
GENERATED == "generated answer"
GENERATION_ERROR == "Error generating response"

Reason(query_id) == <<"Triggered quarantine on query", query_id>>
NoNotes == <<"">>

IdleTask ==
    [pc |-> "idle", user_id |-> "", k |-> 0, retrieved |-> <<>>, i |-> 0,
     quarantined_docs |-> <<>>, clean_docs |-> <<>>, signals_map |-> <<>>,
     record_id |-> EmptyQid, answer |-> "", action_taken |-> "",
     unsafe |-> FALSE, status |-> 0,
     event |-> <<>>]     \* the Event built by a log_* call that has not yet written it

NoOp == [op |-> "none", quarantine_id |-> EmptyQid, status |-> 0,
         vault |-> EmptyVault, store |-> <<>>, events |-> <<>>, lineage |-> <<>>]

SysInit ==
    /\ now = 0
    /\ corpus \in [Docs -> Profiles]
    /\ store = [d \in Docs |-> ingest_document(d)]
    /\ vault = EmptyVault
    /\ events = <<>>
    /\ lineage = <<>>
    /\ task = [q \in Queries |-> IdleTask]
    /\ running = 0
    /\ llm_calls = <<>>
    /\ ops = 0
    /\ lastOp = NoOp

NoCall == [fn |-> "none", signals |-> Signals(0, 0, 0, 0), threshold |-> 0, result |-> FALSE]

Init == SysInit /\ call = NoCall

DocIds(docs) == [j \in 1..Len(docs) |-> docs[j].doc_id]

\* the loop of step 2 moves to the next document, or leaves for step 4
NextDoc(t) ==
    IF t.i < Len(t.retrieved) THEN [t EXCEPT !.i = @ + 1, !.pc = "evaluate"]
    ELSE [t EXCEPT !.pc = "step4"]

\* utcnow() advances
Tick ==
    /\ now < MaxTime
    /\ now' = now + 1
    /\ lastOp' = NoOp
    /\ UNCHANGED <<corpus, store, vault, events, lineage, task, running, llm_calls, ops, call>>

\* steps 0 and 1: preprocess, retrieve; the empty retrieval returns at once
StartQuery(q, user_id, k, ranking, metadata_filter) ==
    /\ running = 0
    /\ task[q].pc = "idle"
    /\ \A p \in Queries : p < q => task[p].pc # "idle"
    /\ LET retrieved == VectorStore_retrieve(store, ranking, k, TRUE, metadata_filter)
           t == [task[q] EXCEPT !.user_id = user_id, !.k = k, !.retrieved = retrieved]
       IN  IF retrieve_raises(store, k, TRUE)
           THEN /\ events' = events
                /\ task' = [task EXCEPT ![q] = [task[q] EXCEPT !.user_id = user_id, !.k = k,
                                                              !.pc = "done", !.status = 500]]
                /\ running' = 0
           ELSE IF retrieved = <<>>
           THEN /\ events' = log_system_event(events, 1001, q)
                /\ task' = [task EXCEPT ![q] = [t EXCEPT !.pc = "done", !.answer = NO_DOCUMENTS,
                                                         !.status = 200]]
                /\ running' = 0
           ELSE /\ events' = events
                /\ task' = [task EXCEPT ![q] = [t EXCEPT !.pc = "evaluate", !.i = 1]]
                /\ running' = q
    /\ lastOp' = NoOp
    /\ UNCHANGED <<now, corpus, store, vault, lineage, llm_calls, ops, call>>

\* step 2: evaluate one document; a clean document is kept and event 1001 logged
EvaluateDoc(q) ==
    /\ running = q
    /\ task[q].pc = "evaluate"
    /\ LET t == task[q]
           doc == t.retrieved[t.i]
           signals == evaluate_document(corpus, doc.doc_id)
           t1 == [t EXCEPT !.signals_map = (doc.doc_id :> signals) @@ @]
       IN  IF should_quarantine(signals, INTEGRITY_THRESHOLD)
           THEN /\ task' = [task EXCEPT ![q] = [t1 EXCEPT !.pc = "quarantine_document"]]
                /\ events' = events
           ELSE /\ task' = [task EXCEPT ![q] = NextDoc([t1 EXCEPT !.clean_docs = Append(@, doc)])]
                /\ events' = log_integrity_check(events, q, doc.doc_id, FALSE, t.user_id)
    /\ lastOp' = NoOp
    /\ UNCHANGED <<now, corpus, store, vault, lineage, running, llm_calls, ops, call>>

\* step 3, _quarantine_doc: quarantine in vault
QuarantineInVault(q) ==
    /\ running = q
    /\ task[q].pc = "quarantine_document"
    /\ LET t == task[q]
           doc == t.retrieved[t.i]
       IN  /\ vault' = QuarantineVault_quarantine_document(vault, doc.doc_id, doc.content,
                           doc.metadata, t.signals_map[doc.doc_id], Reason(q), now)
           /\ task' = [task EXCEPT ![q] = [t EXCEPT !.record_id = QuarantineId(now, doc.doc_id),
                                                    !.pc = "mark_quarantined"]]
    /\ lastOp' = NoOp
    /\ UNCHANGED <<now, corpus, store, events, lineage, running, llm_calls, ops, call>>

\* step 3, _quarantine_doc: mark quarantined in vector store
MarkQuarantined(q) ==
    /\ running = q
    /\ task[q].pc = "mark_quarantined"
    /\ LET t == task[q]
           doc == t.retrieved[t.i]
       IN  /\ store' = VectorStore_mark_quarantined(store, doc.doc_id, t.record_id)
           /\ task' = [task EXCEPT ![q].pc = "log_quarantine_action"]
    /\ lastOp' = NoOp
    /\ UNCHANGED <<now, corpus, vault, events, lineage, running, llm_calls, ops, call>>

\* step 3, _quarantine_doc: log quarantine action (event 2001)
LogQuarantineAction(q) ==
    /\ running = q
    /\ task[q].pc = "log_quarantine_action"
    /\ LET t == task[q]
           doc == t.retrieved[t.i]
       IN  /\ events' = log_quarantine_action(events, t.record_id, doc.doc_id, "initiated", "")
           /\ task' = [task EXCEPT ![q].pc = "log_integrity_check"]
    /\ lastOp' = NoOp
    /\ UNCHANGED <<now, corpus, store, vault, lineage, running, llm_calls, ops, call>>

\* step 3: back in query, the document is recorded as quarantined and event 1003 logged
LogIntegrityQuarantined(q) ==
    /\ running = q
    /\ task[q].pc = "log_integrity_check"
    /\ LET t == task[q]
           doc == t.retrieved[t.i]
       IN  /\ events' = log_integrity_check(events, q, doc.doc_id, TRUE, t.user_id)
           /\ task' = [task EXCEPT ![q] =
                          NextDoc([t EXCEPT !.quarantined_docs = Append(@, doc.doc_id)])]
    /\ lastOp' = NoOp
    /\ UNCHANGED <<now, corpus, store, vault, lineage, running, llm_calls, ops, call>>

\* a query that quarantined documents reported as "allow"
ActionTaken_always_allow(quarantined_docs) == "allow"

ActionTaken(quarantined_docs) == IF quarantined_docs # <<>> THEN "partial" ELSE "allow"

\* step 4 with every retrieved document passed to generation
Step4_with_retrieved(q) ==
    /\ running = q
    /\ task[q].pc = "step4"
    /\ LET t == task[q]
       IN  /\ llm_calls' = (q :> DocIds(t.retrieved)) @@ llm_calls
           /\ task' = [task EXCEPT ![q].pc = "awaiting_llm"]
           /\ running' = 0
    /\ lastOp' = NoOp
    /\ UNCHANGED <<now, corpus, store, vault, events, lineage, ops, call>>

\* step 4: call the generation collaborator (the task awaits the HTTP response and
\* gives up the event loop), or answer with the safety message
Step4(q) ==
    /\ running = q
    /\ task[q].pc = "step4"
    /\ LET t == task[q]
       IN  IF t.clean_docs # <<>>
           THEN /\ llm_calls' = (q :> DocIds(t.clean_docs)) @@ llm_calls
                /\ task' = [task EXCEPT ![q].pc = "awaiting_llm"]
                /\ running' = 0
           ELSE /\ llm_calls' = llm_calls
                /\ task' = [task EXCEPT ![q] = [t EXCEPT !.answer = SAFETY_MESSAGE,
                                                         !.action_taken = "quarantine",
                                                         !.pc = "log_query"]]
                /\ running' = q
    /\ lastOp' = NoOp
    /\ UNCHANGED <<now, corpus, store, vault, events, lineage, ops, call>>

\* a failed generation ends the request: no lineage row, status 500
LlmReturns_failure_raises(q, answer) ==
    /\ running = 0
    /\ task[q].pc = "awaiting_llm"
    /\ LET t == task[q]
       IN  task' = [task EXCEPT ![q] =
                       IF answer = GENERATION_ERROR
                       THEN [t EXCEPT !.pc = "done", !.status = 500]
                       ELSE [t EXCEPT !.answer = answer,
                                      !.action_taken = ActionTaken(t.quarantined_docs),
                                      !.pc = "log_query"]]
    /\ running' = IF answer = GENERATION_ERROR THEN 0 ELSE q
    /\ lastOp' = NoOp
    /\ UNCHANGED <<now, corpus, store, vault, events, lineage, llm_calls, ops, call>>

\* llm.generate returns the answer, or the error-shaped string
LlmReturns(q, answer) ==
    /\ running = 0
    /\ task[q].pc = "awaiting_llm"
    /\ LET t == task[q]
       IN  task' = [task EXCEPT ![q] = [t EXCEPT !.answer = answer,
                                                 !.action_taken = ActionTaken(t.quarantined_docs),
                                                 !.pc = "log_query"]]
    /\ running' = q
    /\ lastOp' = NoOp
    /\ UNCHANGED <<now, corpus, store, vault, events, lineage, llm_calls, ops, call>>

\* step 5: log lineage, and return the response
LogLineage(q) ==
    /\ running = q
    /\ task[q].pc = "log_query"
    /\ LET t == task[q]
       IN  lineage' = log_query(lineage, q, t.user_id, DocIds(t.retrieved), t.signals_map,
                                t.action_taken, now)
    /\ task' = [task EXCEPT ![q].pc = "done", ![q].status = 200]
    /\ running' = 0
    /\ lastOp' = NoOp
    /\ UNCHANGED <<now, corpus, store, vault, events, llm_calls, ops, call>>

-----------------------------------------------------------------------------
(* api.py: POST /api/query when the pipeline raises, or the request is cancelled *)

\* the storage calls of the pipeline, each of which may raise: the event log and
\* lineage writes and the vector-store update
FailingSteps == {"evaluate", "mark_quarantined", "log_quarantine_action",
                 "log_integrity_check", "log_query"}

\* the vault directory written by the query removed again
execute_query_except_rolls_back(v, record_id) ==
    [content_txt |-> [qid \in DOMAIN v.content_txt \ {record_id} |-> v.content_txt[qid]],
     metadata_json |-> [qid \in DOMAIN v.metadata_json \ {record_id} |-> v.metadata_json[qid]],
     record_json |-> [qid \in DOMAIN v.record_json \ {record_id} |-> v.record_json[qid]],
     audit_jsonl |-> [qid \in DOMAIN v.audit_jsonl \ {record_id} |-> v.audit_jsonl[qid]]]

\* except Exception: HTTPException(500); the vault is left as the query wrote it
execute_query_except(v, record_id) == v

\* a storage call raises: the exception leaves query and _quarantine_doc, neither
\* of which catches it, and execute_query answers 500
Fails(q) ==
    /\ running = q
    /\ task[q].pc \in FailingSteps
    /\ vault' = execute_query_except(vault, task[q].record_id)
    /\ task' = [task EXCEPT ![q].pc = "failed", ![q].status = 500]
    /\ running' = 0
    /\ lastOp' = NoOp
    /\ UNCHANGED <<now, corpus, store, events, lineage, llm_calls, ops, call>>

\* the request is cancelled while the task awaits llm.generate: CancelledError is
\* not an Exception, no except clause of the pipeline or the handler runs
Cancelled(q) ==
    /\ running = 0
    /\ task[q].pc = "awaiting_llm"
    /\ task' = [task EXCEPT ![q].pc = "cancelled"]
    /\ lastOp' = NoOp
    /\ UNCHANGED <<now, corpus, store, vault, events, lineage, running, llm_calls, ops, call>>

-----------------------------------------------------------------------------
(* api.py: the analyst endpoints *)

QuarantineVault_get_record(v, quarantine_id) ==
    IF Exists(v, quarantine_id) THEN <<v.record_json[quarantine_id]>> ELSE <<>>

\* the except clauses of the analyst handlers: ValueError is answered 404; every
\* other Exception, the HTTPException raised inside the try block included, 500
AnalystHandlerStatus(raised) ==
    CASE raised = "none" -> 200
      [] raised = "ValueError" -> 404
      [] OTHER -> 500

Served(op, quarantine_id, status) ==
    [op |-> op, quarantine_id |-> quarantine_id, status |-> status,
     vault |-> vault, store |-> store, events |-> events, lineage |-> lineage]

\* POST /api/quarantine/{quarantine_id}/confirm
api_confirm_malicious(quarantine_id, analyst, notes) ==
    /\ running = 0
    /\ ops < MaxAnalystOps
    /\ LET found == QuarantineVault_get_record(vault, quarantine_id)
       IN  IF found = <<>>
           THEN /\ lastOp' = Served("confirm", quarantine_id, AnalystHandlerStatus("HTTPException"))
                /\ UNCHANGED <<vault, events, ops>>
           ELSE /\ vault' = QuarantineVault_confirm_malicious(vault, quarantine_id, analyst, notes, now)
                /\ events' = log_quarantine_action(events, quarantine_id, found[1].doc_id, "confirmed", analyst)
                /\ lastOp' = Served("confirm", quarantine_id, AnalystHandlerStatus("none"))
                /\ ops' = ops + 1
    /\ UNCHANGED <<now, corpus, store, lineage, task, running, llm_calls, call>>

\* POST /api/quarantine/{quarantine_id}/restore
api_restore_document(quarantine_id, analyst, notes) ==
    /\ running = 0
    /\ ops < MaxAnalystOps
    /\ LET found == QuarantineVault_get_record(vault, quarantine_id)
       IN  IF found = <<>>
           THEN /\ lastOp' = Served("restore", quarantine_id, AnalystHandlerStatus("HTTPException"))
                /\ UNCHANGED <<vault, store, events, ops>>
           ELSE /\ LET after == QuarantineVault_restore_document(vault, store, quarantine_id, analyst, notes, now)
                   IN  /\ vault' = after.vault
                       /\ store' = after.store
                /\ events' = log_quarantine_action(events, quarantine_id, found[1].doc_id, "restored", analyst)
                /\ lastOp' = Served("restore", quarantine_id, AnalystHandlerStatus("none"))
                /\ ops' = ops + 1
    /\ UNCHANGED <<now, corpus, lineage, task, running, llm_calls, call>>

\* GET /api/blast-radius/{doc_id}
api_get_blast_radius(doc_id, lookback_hours) ==
    /\ running = 0
    /\ ops < MaxAnalystOps
    /\ \E q_dir \in glob_first(vault, doc_id) :
          LET report == analyze_impact(Lines(lineage), doc_id, lookback_hours, now, vault, q_dir)
          IN  events' = log_blast_radius(events, doc_id, report.severity)
    /\ lastOp' = Served("blast_radius", EmptyQid, 200)
    /\ ops' = ops + 1
    /\ UNCHANGED <<now, corpus, store, vault, lineage, task, running, llm_calls, call>>

\* POST /api/demo/reset: the collection, the logs directory and the vault are
\* removed, then event 4004 is logged
api_reset_demo ==
    /\ running = 0
    /\ ops < MaxAnalystOps
    /\ store' = <<>>
    /\ lineage' = <<>>
    /\ vault' = EmptyVault
    /\ events' = log_system_event(<<>>, 4004, 0)
    /\ lastOp' = Served("reset", EmptyQid, 200)
    /\ ops' = ops + 1
    /\ UNCHANGED <<now, corpus, task, running, llm_calls, call>>

-----------------------------------------------------------------------------
(* api.py: POST /api/query/unsafe *)

\* retrieval without the quarantine filter, then generation from every document
execute_unsafe_query(q, k, ranking, metadata_filter) ==
    /\ running = 0
    /\ task[q].pc = "idle"
    /\ \A p \in Queries : p < q => task[p].pc # "idle"
    /\ LET t == [task[q] EXCEPT !.unsafe = TRUE]
       IN  IF retrieve_raises(store, k, FALSE)
           THEN /\ task' = [task EXCEPT ![q] = [t EXCEPT !.pc = "done", !.status = 500]]
                /\ llm_calls' = llm_calls
           ELSE LET documents == VectorStore_retrieve(store, ranking, k, FALSE, metadata_filter)
                IN  IF documents = <<>>
                    THEN /\ task' = [task EXCEPT ![q] = [t EXCEPT !.pc = "done", !.status = 404]]
                         /\ llm_calls' = llm_calls
                    ELSE /\ task' = [task EXCEPT ![q] = [t EXCEPT !.retrieved = documents,
                                                                  !.pc = "unsafe_awaiting_llm"]]
                         /\ llm_calls' = (q :> DocIds(documents)) @@ llm_calls
    /\ lastOp' = NoOp
    /\ UNCHANGED <<now, corpus, store, vault, events, lineage, running, ops, call>>

\* llm.generate returns; system event 4003 is logged and the answer returned
UnsafeLlmReturns(q, answer) ==
    /\ running = 0
    /\ task[q].pc = "unsafe_awaiting_llm"
    /\ events' = log_system_event(events, 4003, 0)
    /\ task' = [task EXCEPT ![q] = [@ EXCEPT !.answer = answer, !.pc = "done", !.status = 200]]
    /\ lastOp' = NoOp
    /\ UNCHANGED <<now, corpus, store, vault, lineage, running, llm_calls, ops, call>>

-----------------------------------------------------------------------------

\* the ids an analyst asks for: those of the vault, and one that names no directory
UnknownQid == QuarantineId(MaxTime + 1, 1)
RequestedQids == DOMAIN vault.record_json \cup {UnknownQid}

Next ==
    \/ Tick
    \/ \E q \in Queries, user_id \in Users, k \in Ks, ranking \in Perms(Docs),
          metadata_filter \in {NoFilter, CveOf(1)} :
            StartQuery(q, user_id, k, ranking, metadata_filter)
    \/ \E q \in Queries : EvaluateDoc(q)
    \/ \E q \in Queries : QuarantineInVault(q)
    \/ \E q \in Queries : MarkQuarantined(q)
    \/ \E q \in Queries : LogQuarantineAction(q)
    \/ \E q \in Queries : LogIntegrityQuarantined(q)
    \/ \E q \in Queries : Step4(q)
    \/ \E q \in Queries, answer \in {GENERATED, GENERATION_ERROR} : LlmReturns(q, answer)
    \/ \E q \in Queries : LogLineage(q)
    \/ \E quarantine_id \in RequestedQids, analyst \in Analysts :
            api_confirm_malicious(quarantine_id, analyst, NoNotes)
    \/ \E quarantine_id \in RequestedQids, analyst \in Analysts :
            api_restore_document(quarantine_id, analyst, NoNotes)

Spec == Init /\ [][Next]_vars

\* every endpoint: the blast-radius report and the demo endpoints as well
NextAll ==
    \/ Next
    \/ \E doc_id \in Docs : api_get_blast_radius(doc_id, LINEAGE_LOOKBACK_HOURS)
    \/ api_reset_demo
    \/ \E q \in Queries, k \in Ks, ranking \in Perms(Docs),
          metadata_filter \in {NoFilter, CveOf(1)} :
            execute_unsafe_query(q, k, ranking, metadata_filter)
    \/ \E q \in Queries, answer \in {GENERATED, GENERATION_ERROR} : UnsafeLlmReturns(q, answer)

SpecAll == Init /\ [][NextAll]_vars

\* the protected pipeline and the analyst endpoints, with failing storage calls and
\* cancelled requests
NextFail ==
    \/ Next
    \/ \E q \in Queries : Fails(q)
    \/ \E q \in Queries : Cancelled(q)

SpecFail == Init /\ [][NextFail]_vars

-----------------------------------------------------------------------------
(* IntegritySignals.should_quarantine applied to every signal tuple and threshold *)

SigValues == 0..MaxSig

CallShouldQuarantine(sig, threshold) ==
    /\ call = NoCall
    /\ call' = [fn |-> "should_quarantine", signals |-> sig, threshold |-> threshold,
                result |-> should_quarantine(sig, threshold)]
    /\ UNCHANGED sysvars

NextSQ ==
    /\ call = NoCall
    /\ \E t \in SigValues, r \in SigValues, a \in SigValues, s \in SigValues, threshold \in SigValues :
          CallShouldQuarantine(Signals(t, r, a, s), threshold)

SpecSQ == Init /\ [][NextSQ]_vars

\* IntegritySignals.combined_score on every signal tuple in tenths, 0.0 to 1.0
Tenths == 0..(2 * INTEGRITY_THRESHOLD)

CallCombinedScore(sig) ==
    /\ call = NoCall
    /\ call' = [fn |-> "combined_score", signals |-> sig, result |-> combined_score(sig)]
    /\ UNCHANGED sysvars

NextCombined ==
    /\ call = NoCall
    /\ \E t \in Tenths, r \in Tenths, a \in Tenths, s \in Tenths : CallCombinedScore(Signals(t, r, a, s))

SpecCombined == Init /\ [][NextCombined]_vars

-----------------------------------------------------------------------------
(* Concurrent callers of EventLogger.log_event and BlastRadiusAnalyzer.log_query.
   Every caller is a coroutine of the one event loop; a caller that has begun a
   call runs until the call returns, there being no await inside either call
   that suspends: the lock of log_event is free whenever a caller reaches it,
   because its holder does not await while holding it. *)

Writers == Queries

LockHeld == \E w \in Writers : task[w].pc \in {"locked", "events_open"}

BeginLogEvent(w) ==
    /\ running = 0
    /\ task[w].pc = "idle"
    /\ task[w].i < MaxWrites
    /\ task' = [task EXCEPT ![w].pc = "log_event"]
    /\ running' = w
    /\ UNCHANGED <<now, corpus, store, vault, events, lineage, llm_calls, ops, lastOp, call>>

\* async with self.lock
AcquireLock(w) ==
    /\ running = w
    /\ task[w].pc = "log_event"
    /\ ~LockHeld
    /\ task' = [task EXCEPT ![w].pc = "locked"]
    /\ UNCHANGED <<now, corpus, store, vault, events, lineage, running, llm_calls, ops, lastOp, call>>

\* mkdir, open(self.log_path, "a")
OpenEventLog(w) ==
    /\ running = w
    /\ task[w].pc = "locked"
    /\ task' = [task EXCEPT ![w].pc = "events_open"]
    /\ UNCHANGED <<now, corpus, store, vault, events, lineage, running, llm_calls, ops, lastOp, call>>

\* f.write; the file is closed, the lock released and the call returns
WriteEvent(w) ==
    /\ running = w
    /\ task[w].pc = "events_open"
    /\ events' = log_system_event(events, 4001, w)
    /\ task' = [task EXCEPT ![w].pc = "idle", ![w].i = @ + 1]
    /\ running' = 0
    /\ UNCHANGED <<now, corpus, store, vault, lineage, llm_calls, ops, lastOp, call>>

BeginLogQuery(w) ==
    /\ running = 0
    /\ task[w].pc = "idle"
    /\ task[w].i < MaxWrites
    /\ task' = [task EXCEPT ![w].pc = "log_query_called"]
    /\ running' = w
    /\ UNCHANGED <<now, corpus, store, vault, events, lineage, llm_calls, ops, lastOp, call>>

\* the caller is suspended with the file open
OpenLineageLog_then_awaits(w) ==
    /\ running = w
    /\ task[w].pc = "log_query_called"
    /\ task' = [task EXCEPT ![w].pc = "lineage_open"]
    /\ running' = 0
    /\ UNCHANGED <<now, corpus, store, vault, events, lineage, llm_calls, ops, lastOp, call>>

\* mkdir, open(self.lineage_log, "a")
OpenLineageLog(w) ==
    /\ running = w
    /\ task[w].pc = "log_query_called"
    /\ task' = [task EXCEPT ![w].pc = "lineage_open"]
    /\ UNCHANGED <<now, corpus, store, vault, events, lineage, running, llm_calls, ops, lastOp, call>>

\* f.write; the file is closed and the call returns
WriteLineage(w) ==
    /\ running = w
    /\ task[w].pc = "lineage_open"
    /\ lineage' = log_query(lineage, w, "alice", <<>>, <<>>, "allow", now)
    /\ task' = [task EXCEPT ![w].pc = "idle", ![w].i = @ + 1]
    /\ running' = 0
    /\ UNCHANGED <<now, corpus, store, vault, events, llm_calls, ops, lastOp, call>>

NextLog ==
    \/ \E w \in Writers : BeginLogEvent(w)
    \/ \E w \in Writers : AcquireLock(w)
    \/ \E w \in Writers : OpenEventLog(w)
    \/ \E w \in Writers : WriteEvent(w)
    \/ \E w \in Writers : BeginLogQuery(w)
    \/ \E w \in Writers : OpenLineageLog(w)
    \/ \E w \in Writers : WriteLineage(w)

SpecLog == Init /\ [][NextLog]_vars

\* Event.timestamp: Field(default_factory=datetime.utcnow), read when the Event is built
Event_timestamp(event, utcnow) == [timestamp |-> utcnow] @@ event

\* the events a writer logs: log_system_event, and log_integrity_check of a
\* quarantined document
EventsOf(w) == {Last(log_system_event(<<>>, 4001, w)), Last(log_integrity_check(<<>>, w, 1, TRUE, "alice"))}

\* a log_* method builds the Event, which reads the clock, and calls log_event
BuildEvent(w, event) ==
    /\ running = 0
    /\ task[w].pc = "idle"
    /\ task[w].i < MaxWrites
    /\ task' = [task EXCEPT ![w].pc = "log_event", ![w].event = <<Event_timestamp(event, now)>>]
    /\ running' = w
    /\ UNCHANGED <<now, corpus, store, vault, events, lineage, llm_calls, ops, lastOp, call>>

\* f.write(event.to_jsonl()); the file is closed, the lock released, the call returns
WriteBuiltEvent(w) ==
    /\ running = w
    /\ task[w].pc = "events_open"
    /\ task[w].event # <<>>
    /\ events' = log_event(events, task[w].event[1])
    /\ task' = [task EXCEPT ![w].pc = "idle", ![w].i = @ + 1, ![w].event = <<>>]
    /\ running' = 0
    /\ UNCHANGED <<now, corpus, store, vault, lineage, llm_calls, ops, lastOp, call>>

\* writers of the event log under a clock that advances at any moment, also between
\* the reading of the clock and the write
NextStamp ==
    \/ Tick
    \/ \E w \in Writers : \E event \in EventsOf(w) : BuildEvent(w, event)
    \/ \E w \in Writers : AcquireLock(w)
    \/ \E w \in Writers : OpenEventLog(w)
    \/ \E w \in Writers : WriteBuiltEvent(w)

SpecStamp == Init /\ [][NextStamp]_vars

-----------------------------------------------------------------------------
(* read_events, analyze_impact, _calculate_severity and retrieve applied to
   bounded inputs *)

RECURSIVE SeqsUpTo(_, _)
SeqsUpTo(S, n) ==
    IF n = 0 THEN {<<>>}
    ELSE LET shorter == SeqsUpTo(S, n - 1)
         IN  shorter \cup {Append(s, x) : s \in {t \in shorter : Len(t) = n - 1}, x \in S}

\* an events.jsonl: line n holds the n-th event logged, or is blank or torn
EventLevels == {"Information", "Error"}
EventLineKinds == EventLevels \cup {"blank", "torn"}

EventLine(kind, n) ==
    LET event == Event(4001, IF kind \in EventLevels THEN kind ELSE "Information",
                       "System", "", n, 0, EmptyQid, "")
    IN  CASE kind = "blank" -> BlankLine(event)
          [] kind = "torn" -> TornLine(event)
          [] OTHER -> JsonLine(event)

EventFiles == {[n \in 1..Len(kinds) |-> EventLine(kinds[n], n)] :
                  kinds \in SeqsUpTo(EventLineKinds, MaxLines)}

CallReadEvents(lines, limit, level) ==
    /\ call = NoCall
    /\ call' = [fn |-> "read_events", lines |-> lines, limit |-> limit, level |-> level,
                result |-> read_events(lines, limit, level)]
    /\ UNCHANGED sysvars

\* a query_lineage.jsonl: rows stamped on the hour, none later than utcnow, or torn lines
HourMarks == {h * SECONDS_PER_HOUR : h \in 0..MaxHours}
AnalyzedDoc == 1
OtherDoc == 2
LineageRowChoices ==
    {<<user_id, doc_id, ts>> : user_id \in Users, doc_id \in {AnalyzedDoc, OtherDoc}, ts \in HourMarks}
        \cup {<<"torn">>}

LineageLine(choice, n) ==
    IF choice = <<"torn">>
    THEN TornLine(QueryLineage(n, 0, "", <<>>, <<>>, "allow"))
    ELSE JsonLine(QueryLineage(n, choice[3], choice[1], <<choice[2]>>, <<>>, "allow"))

LineageFiles == {[n \in 1..Len(choices) |-> LineageLine(choices[n], n)] :
                    choices \in SeqsUpTo(LineageRowChoices, MaxLines)}

\* a vault in which some of the two documents were quarantined at second 0
RECURSIVE VaultOf(_)
VaultOf(quarantined) ==
    IF quarantined = {} THEN EmptyVault
    ELSE LET d == CHOOSE x \in quarantined : \A y \in quarantined : x >= y
         IN  QuarantineVault_quarantine_document(VaultOf(quarantined \ {d}), d, ContentOf(d),
                 ingest_document(d), Signals(T - 4, T - 1 - d, T + 3, T + 3), Reason(d), 0)

Vaults == {VaultOf(quarantined) : quarantined \in SUBSET {AnalyzedDoc, OtherDoc}}

CallAnalyzeImpact(lines, doc_id, lookback_hours, utcnow, v, q_dir) ==
    /\ call = NoCall
    /\ call' = [fn |-> "analyze_impact", lines |-> lines, doc_id |-> doc_id,
                lookback_hours |-> lookback_hours, utcnow |-> utcnow, vault |-> v, q_dir |-> q_dir,
                result |-> analyze_impact(lines, doc_id, lookback_hours, utcnow, v, q_dir)]
    /\ UNCHANGED sysvars

CallCalculateSeverity(query_count, user_count) ==
    /\ call = NoCall
    /\ call' = [fn |-> "calculate_severity", query_count |-> query_count, user_count |-> user_count,
                result |-> calculate_severity(query_count, user_count)]
    /\ UNCHANGED sysvars

\* a collection of NumStoreDocs ingested documents, some of them quarantined since
StoreDocs == 1..NumStoreDocs
Collections ==
    {[d \in StoreDocs |-> IF d \in flagged
                          THEN VectorStore_mark_quarantined(
                                   (d :> ingest_document(d)), d, QuarantineId(0, d))[d]
                          ELSE ingest_document(d)] : flagged \in SUBSET StoreDocs}

CallRetrieve(st, ranking, k, metadata_filter) ==
    /\ call = NoCall
    /\ call' = [fn |-> "retrieve", store |-> st, ranking |-> ranking, k |-> k,
                metadata_filter |-> metadata_filter,
                result |-> VectorStore_retrieve(st, ranking, k, TRUE, metadata_filter)]
    /\ UNCHANGED sysvars

\* one corpus is enough where the corpus is not read
InitCall == Init /\ corpus = [d \in Docs |-> Signals(T + 3, T + 3, T + 3, T + 3)]

NextReadEvents ==
    /\ call = NoCall
    /\ \E lines \in EventFiles, limit \in 0..MaxLimit, level \in EventLevels \cup {NoLevel} :
          CallReadEvents(lines, limit, level)

SpecReadEvents == InitCall /\ [][NextReadEvents]_vars

NextAnalyzeImpact ==
    /\ call = NoCall
    /\ \E lines \in LineageFiles, lookback_hours \in 0..MaxHours, v \in Vaults :
          \E q_dir \in glob_first(v, AnalyzedDoc) :
              CallAnalyzeImpact(lines, AnalyzedDoc, lookback_hours, MaxHours * SECONDS_PER_HOUR,
                                v, q_dir)

SpecAnalyzeImpact == InitCall /\ [][NextAnalyzeImpact]_vars

NextSeverity ==
    /\ call = NoCall
    /\ \E query_count \in 0..MaxQueryCount, user_count \in 0..MaxUserCount :
          CallCalculateSeverity(query_count, user_count)

SpecSeverity == InitCall /\ [][NextSeverity]_vars

NextRetrieve ==
    /\ call = NoCall
    /\ \E st \in Collections, ranking \in Perms(StoreDocs), k \in Ks,
          metadata_filter \in {NoFilter, CveOf(1)} :
          CallRetrieve(st, ranking, k, metadata_filter)

SpecRetrieve == InitCall /\ [][NextRetrieve]_vars

-----------------------------------------------------------------------------
(* The read paths on a file whose last line was cut inside a multi-byte character
   (the write was interrupted): the bytes of that line are not UTF-8 text *)

CutLine(record) == [kind |-> "cut", record |-> record]

\* the text layer of open(path, "r") decodes every line it hands out
decodes(lines) == \A n \in 1..Len(lines) : lines[n].kind # "cut"

\* f.readlines() is outside the try block of the loop
read_events_raises(lines) == lines # <<>> /\ ~decodes(lines)

\* `for line in f` is outside the try block of the loop body
analyze_impact_raises(lines) == lines # <<>> /\ ~decodes(lines)

WithCutLast(lines) == [lines EXCEPT ![Len(lines)] = CutLine(@.record)]
EventFilesAsLeft == EventFiles \cup {WithCutLast(lines) : lines \in EventFiles \ {<<>>}}
LineageFilesAsLeft == LineageFiles \cup {WithCutLast(lines) : lines \in LineageFiles \ {<<>>}}

\* GET /api/events
CallReadEventsOnFile(lines, limit, level) ==
    /\ call = NoCall
    /\ call' = [fn |-> "read_events", lines |-> lines, limit |-> limit, level |-> level,
                raised |-> read_events_raises(lines),
                result |-> IF read_events_raises(lines) THEN <<>>
                           ELSE read_events(lines, limit, level)]
    /\ UNCHANGED sysvars

\* GET /api/blast-radius/{doc_id}
CallAnalyzeImpactOnFile(lines, doc_id, lookback_hours, utcnow) ==
    /\ call = NoCall
    /\ call' = [fn |-> "analyze_impact", lines |-> lines, doc_id |-> doc_id,
                lookback_hours |-> lookback_hours, utcnow |-> utcnow,
                raised |-> analyze_impact_raises(lines),
                result |-> IF analyze_impact_raises(lines) THEN empty_report(doc_id, utcnow)
                           ELSE analyze_impact(lines, doc_id, lookback_hours, utcnow, EmptyVault, None)]
    /\ UNCHANGED sysvars

NextReadPaths ==
    /\ call = NoCall
    /\ \/ \E lines \in EventFilesAsLeft, limit \in 1..MaxLimit, level \in EventLevels \cup {NoLevel} :
             CallReadEventsOnFile(lines, limit, level)
       \/ \E lines \in LineageFilesAsLeft, lookback_hours \in 0..MaxHours :
             CallAnalyzeImpactOnFile(lines, AnalyzedDoc, lookback_hours, MaxHours * SECONDS_PER_HOUR)

SpecReadPaths == InitCall /\ [][NextReadPaths]_vars

-----------------------------------------------------------------------------
(* api.py: GET /api/events/stream, one subscriber of the live event stream.
   `call` holds the locals of event_generator and what it has yielded so far *)

STREAM_INITIAL_LIMIT == 20
STREAM_POLL_LIMIT == 1000

\* the events the log and the subscriber know of; a new event differs from all of them
KnownSerials ==
    {events[n].query_id : n \in 1..Len(events)}
        \cup (IF call.fn = "event_stream"
              THEN {call.yielded[n].query_id : n \in 1..Len(call.yielded)}
                       \cup {e.query_id : e \in call.present}
              ELSE {})

NextSerial == 1 + Cardinality(KnownSerials \ {0})

\* some request logs an event
LogOneEvent ==
    /\ running = 0
    /\ NextSerial <= MaxLogged
    /\ events' = log_system_event(events, 4001, NextSerial)
    /\ UNCHANGED <<now, corpus, store, vault, lineage, task, running, llm_calls, ops, lastOp, call>>

\* the subscriber connects: the initial batch is read and sent
Subscribe ==
    /\ call = NoCall
    /\ LET batch == read_events(Lines(events), STREAM_INITIAL_LIMIT, NoLevel)
       IN  call' = [fn |-> "event_stream", yielded |-> batch, last_count |-> Len(batch),
                    present |-> Range(events), polls |-> 0]
    /\ UNCHANGED sysvars

\* the body of the polling loop, entered after asyncio.sleep(2)
Poll ==
    /\ call.fn = "event_stream"
    /\ call.polls < MaxPolls
    /\ LET all_events == read_events(Lines(events), STREAM_POLL_LIMIT, NoLevel)
           new_events == SubSeq(all_events, 1, Len(all_events) - call.last_count)
       IN  IF Len(all_events) > call.last_count
           THEN call' = [call EXCEPT !.yielded = @ \o new_events, !.last_count = Len(all_events),
                                     !.polls = @ + 1]
           ELSE call' = [call EXCEPT !.polls = @ + 1]
    /\ UNCHANGED sysvars

NextStream ==
    \/ LogOneEvent
    \/ Subscribe
    \/ Poll

SpecStream == InitCall /\ [][NextStream]_vars

-----------------------------------------------------------------------------
(* detection/trust_scorer.py, detection/red_flag_detector.py and
   IntegrityEngine.evaluate_document on documents given by their source, their
   category and the red-flag keywords their content holds.  Scores are exact
   here: SCORE_ONE units stand for 1.0, the unit chosen so that every entry of
   the trust table and every red-flag score is a whole number. *)

SCORE_ONE == 8200
Max(a, b) == IF a > b THEN a ELSE b

\* config.RED_FLAGS: the number of keywords of each category
RED_FLAGS ==
    [security_downgrade |-> 9, dangerous_permissions |-> 7, severity_downplay |-> 9,
     unsafe_operations |-> 8, social_engineering |-> 8]

Categories == DOMAIN RED_FLAGS

RECURSIVE Sum(_, _)
Sum(f, S) == IF S = {} THEN 0 ELSE LET x == CHOOSE y \in S : TRUE IN f[x] + Sum(f, S \ {x})

\* config.TRUST_SOURCES, in dictionary order
TRUST_SOURCES ==
    <<[source |-> "nvd.nist.gov", score |-> 8200], [source |-> "cve.mitre.org", score |-> 8200],
      [source |-> "ubuntu.com/security", score |-> 7380],
      [source |-> "redhat.com/security", score |-> 7380],
      [source |-> "debian.org/security", score |-> 7380],
      [source |-> "microsoft.com/security", score |-> 6970],
      [source |-> "github.com/advisories", score |-> 6560],
      [source |-> "internal_kb", score |-> 7380], [source |-> "golden", score |-> 7790],
      [source |-> "clean", score |-> 6970], [source |-> "unknown", score |-> 2460],
      [source |-> "poisoned", score |-> 820]>>

\* `a in b` on the strings of the model: the empty string is in every string
SubstringOf(a, b) ==
    \/ a = ""
    \/ a = b
    \/ <<a, b>> \in {<<"nist.gov", "nvd.nist.gov">>, <<"nist.gov", "sub.nvd.nist.gov">>,
                     <<"nvd.nist.gov", "sub.nvd.nist.gov">>,
                     <<"security", "ubuntu.com/security">>, <<"security", "redhat.com/security">>,
                     <<"security", "debian.org/security">>, <<"security", "microsoft.com/security">>}

\* str.lower on the strings of the model
str_lower(s) ==
    CASE s = "Golden" -> "golden"
      [] s = "NVD.NIST.GOV" -> "nvd.nist.gov"
      [] OTHER -> s

\* dict.get(key, default)
metadata_get(metadata, key, default) == IF key \in DOMAIN metadata THEN metadata[key] ELSE default

trust_db_get(key, default) ==
    LET hits == SelectSeq(TRUST_SOURCES, LAMBDA e : e.source = key)
    IN  IF hits # <<>> THEN hits[1].score ELSE default

TrustScorer_score(metadata) ==
    LET source == str_lower(metadata_get(metadata, "source", "unknown"))
        partial == SelectSeq(TRUST_SOURCES,
                       LAMBDA e : SubstringOf(e.source, source) \/ SubstringOf(source, e.source))
        category == metadata_get(metadata, "category", "")
    IN  IF trust_db_get(source, -1) # -1 THEN trust_db_get(source, -1)
        ELSE IF partial # <<>> THEN partial[1].score
        ELSE IF trust_db_get(category, -1) # -1 THEN trust_db_get(category, -1)
        ELSE trust_db_get("unknown", 2460)

\* content.flagged[c]: keywords of category c found on ordinary lines;
\* content.warned[c]: keywords found only on lines that are warning examples
\* ("never ", "warning:", "do not "), which are dropped for a golden document
RedFlagDetector_score(content, metadata) ==
    LET category_flags == [c \in Categories |->
                              IF metadata.category = "golden" THEN content.flagged[c]
                              ELSE content.flagged[c] + content.warned[c]]
        total_flags == Sum(category_flags, Categories)
        categories_with_flags == Cardinality({c \in Categories : category_flags[c] > 0})
        max_possible_flags == Sum(RED_FLAGS, Categories)
        \* base_score = 1 - 1.5 * total_flags / max_possible_flags, in units of
        \* 1 / (2 * max_possible_flags)
        base_score == 2 * max_possible_flags - 3 * total_flags
        percent == IF categories_with_flags >= 4 THEN 60
                   ELSE IF categories_with_flags >= 3 THEN 70
                   ELSE IF categories_with_flags >= 2 THEN 80
                   ELSE 100
    IN  Max((base_score * percent * SCORE_ONE) \div (2 * max_possible_flags * 100), 0)

IntegrityEngine_evaluate_document(content, metadata, anomaly_score, semantic_score) ==
    Signals(TrustScorer_score(metadata), RedFlagDetector_score(content, metadata),
            anomaly_score, semantic_score)

Sources == {"poisoned", "golden", "nist.gov", "blog.example.com"}
FlagCounts == [Categories -> 0..MaxFlags]
NoFlags == [c \in Categories |-> 0]
WarnedChoices == {NoFlags, [NoFlags EXCEPT !.security_downgrade = 1]}
OtherScores == {0, SCORE_ONE \div 2, SCORE_ONE}

CallEvaluateDocument(content, metadata, anomaly_score, semantic_score) ==
    /\ call = NoCall
    /\ LET signals == IntegrityEngine_evaluate_document(content, metadata, anomaly_score,
                                                        semantic_score)
       IN  call' = [fn |-> "evaluate_document", content |-> content, metadata |-> metadata,
                    result |-> signals,
                    should_quarantine |-> should_quarantine(signals, SCORE_ONE \div 2)]
    /\ UNCHANGED sysvars

NextEvaluate ==
    /\ call = NoCall
    /\ \E flagged \in FlagCounts, warned \in WarnedChoices, source \in Sources,
          category \in {"poisoned", "golden"}, anomaly_score \in OtherScores,
          semantic_score \in OtherScores :
          CallEvaluateDocument([flagged |-> flagged, warned |-> warned],
                               [source |-> source, category |-> category],
                               anomaly_score, semantic_score)

SpecEvaluate == InitCall /\ [][NextEvaluate]_vars

\* TrustScorer.score on metadata with and without the keys "source" and "category"
TableSources == {TRUST_SOURCES[n].source : n \in 1..Len(TRUST_SOURCES)}
Absent == "<absent>"
SourceChoices == TableSources \cup {Absent, "", "Golden", "NVD.NIST.GOV", "sub.nvd.nist.gov",
                                    "nist.gov", "security", "blog.example.com"}
CategoryChoices == {Absent, "", "golden", "clean", "poisoned", "advisory"}

Metadata(source, category) ==
    (IF source = Absent THEN <<>> ELSE [source |-> source])
        @@ (IF category = Absent THEN <<>> ELSE [category |-> category])

CallTrustScore(metadata) ==
    /\ call = NoCall
    /\ call' = [fn |-> "TrustScorer.score", metadata |-> metadata, result |-> TrustScorer_score(metadata)]
    /\ UNCHANGED sysvars

NextTrust ==
    /\ call = NoCall
    /\ \E source \in SourceChoices, category \in CategoryChoices :
          CallTrustScore(Metadata(source, category))

SpecTrust == InitCall /\ [][NextTrust]_vars

-----------------------------------------------------------------------------
(* utils/entity_extractor.py, utils/query_processor.py.  A text is the sequence
   of its blank-separated tokens; a token is a word or a CVE identifier
   "CVE-2024-<number>" written in upper or in lower case. *)

Word == [cve |-> FALSE, upper |-> FALSE, number |-> <<>>]
CveToken(upper, number) == [cve |-> TRUE, upper |-> upper, number |-> number]

\* CVE_PATTERN.findall(text), case ignored
findall(text) == SelectSeq(text, LAMBDA token : token.cve)

\* m.upper()
upper(token) == [token EXCEPT !.upper = TRUE]

\* every match kept, repeated ones included
extract_cve_ids_with_duplicates(text) ==
    LET matches == findall(text) IN [n \in 1..Len(matches) |-> upper(matches[n])]

RECURSIVE extract_loop(_, _)
extract_loop(matches, result) ==
    IF matches = <<>> THEN result
    ELSE LET normalized == upper(Head(matches))
         IN  IF normalized \in Range(result) THEN extract_loop(Tail(matches), result)
             ELSE extract_loop(Tail(matches), Append(result, normalized))

extract_cve_ids(text) == extract_loop(findall(text), <<>>)

\* [cve_id] * boost_factor for each identifier in turn
RECURSIVE boosted_terms(_, _)
boosted_terms(cve_ids, boost_factor) ==
    IF cve_ids = <<>> THEN <<>>
    ELSE [n \in 1..boost_factor |-> Head(cve_ids)] \o boosted_terms(Tail(cve_ids), boost_factor)

augment_query(query, boost_factor) ==
    LET cve_ids == extract_cve_ids(query)
    IN  IF cve_ids = <<>> THEN query
        ELSE boosted_terms(cve_ids, boost_factor) \o query

\* text.count(cve_id): the identifier occurs in a token that holds it in upper
\* case, alone or followed by more digits
str_count(text, cve_id) ==
    Cardinality({n \in 1..Len(text) :
        text[n].cve /\ text[n].upper /\ IsPrefix(cve_id.number, text[n].number)})

TokenChoices == {Word, CveToken(TRUE, <<1>>), CveToken(FALSE, <<1>>), CveToken(TRUE, <<1, 2>>)}
QueryTexts == SeqsUpTo(TokenChoices, MaxTokens)

CallAugmentQuery(query, boost_factor) ==
    /\ call = NoCall
    /\ call' = [fn |-> "augment_query", query |-> query, boost_factor |-> boost_factor,
                cve_ids |-> extract_cve_ids(query),
                result |-> augment_query(query, boost_factor)]
    /\ UNCHANGED sysvars

NextAugment ==
    /\ call = NoCall
    /\ \E query \in QueryTexts, boost_factor \in 0..MaxBoost : CallAugmentQuery(query, boost_factor)

SpecAugment == InitCall /\ [][NextAugment]_vars

-----------------------------------------------------------------------------
(* Properties *)

Records == vault.record_json
RecordIds == DOMAIN vault.record_json
Triggers(d) == should_quarantine(corpus[d], INTEGRITY_THRESHOLD)
EventsWhere(P(_)) == {n \in 1..Len(events) : P(events[n])}
RowsOf(q) == {n \in 1..Len(lineage) : lineage[n].query_id = q}

\* C1: the state of a quarantine record changes only from QUARANTINED to
\* CONFIRMED_MALICIOUS or from QUARANTINED to RESTORED; a record that is
\* CONFIRMED_MALICIOUS or RESTORED never changes state again.
C1_TransitionsFormDag ==
    [][\A qid \in RecordIds :
          LET old == vault.record_json[qid].state
              new == vault'.record_json[qid].state
          IN  new # old => old = "QUARANTINED" /\ new \in {"CONFIRMED_MALICIOUS", "RESTORED"}]_vars

\* C2: each doc_id has at most one quarantine record whose state is not RESTORED.
C2_AtMostOneActiveRecord ==
    \A d \in Docs :
        Cardinality({qid \in RecordIds : Records[qid].doc_id = d /\ Records[qid].state # "RESTORED"}) <= 1

\* C3: should_quarantine(t) is true iff at least 2 of the 4 signals are strictly
\* less than t; a signal equal to t does not count as low.
SignalNames == {"trust_score", "red_flag_score", "anomaly_score", "semantic_drift_score"}

C3_TwoOfFourStrictlyBelow ==
    call.fn = "should_quarantine" =>
        (call.result <=> Cardinality({n \in SignalNames : call.signals[n] < call.threshold}) >= 2)

\* two signals sit exactly at the threshold, one is below it: not quarantined
C3_Witness ==
    /\ call.fn = "should_quarantine"
    /\ call.threshold = 2
    /\ call.signals = Signals(2, 2, 1, 3)
    /\ call.result = FALSE

\* C4: the documents passed to the generation collaborator are exactly the
\* retrieved documents whose trigger rule did not fire; no document quarantined
\* during the query and no document flagged is_quarantined is passed to it, and
\* generation is not called when no retrieved document survives.
Survivors(q) == SelectSeq(DocIds(task[q].retrieved), LAMBDA d : ~Triggers(d))
LoopDone(q) == task[q].pc \in {"step4", "awaiting_llm", "log_query", "done"}
Step4Done(q) == task[q].pc \in {"awaiting_llm", "log_query", "done"}

C4_GenerationGetsCleanDocsOnly ==
    \A q \in Queries :
        /\ q \in DOMAIN llm_calls =>
              /\ llm_calls[q] = Survivors(q)
              /\ llm_calls[q] # <<>>
              /\ \A d \in Range(llm_calls[q]) :
                    /\ d \notin Range(task[q].quarantined_docs)
                    /\ \A qid \in RecordIds :
                          ~(Records[qid].doc_id = d /\ Records[qid].reason = Reason(q))
              /\ \A j \in 1..Len(task[q].retrieved) :
                    task[q].retrieved[j].doc_id \in Range(llm_calls[q])
                        => ~task[q].retrieved[j].metadata.is_quarantined
        \* the call is the next step of the task, which holds the event loop
        /\ task[q].pc = "step4" =>
              \A j \in 1..Len(task[q].clean_docs) : ~store[task[q].clean_docs[j].doc_id].is_quarantined
        /\ Step4Done(q) => (q \in DOMAIN llm_calls <=> Survivors(q) # <<>>)
        /\ ~Step4Done(q) => q \notin DOMAIN llm_calls

\* a query that retrieved two documents, quarantined one and passed the other on
C4_Witness ==
    \E q \in Queries :
        /\ q \in DOMAIN llm_calls
        /\ Len(task[q].retrieved) = 2
        /\ Len(llm_calls[q]) = 1
        /\ Len(task[q].quarantined_docs) = 1

\* C5: for every retrieved document exactly one integrity event is logged; if the
\* trigger fires, a vault record is created, the document is flagged in the
\* vector store and events 1003 and 2001 are logged for it; if not, event 1001 is
\* logged and no vault record, flag change or 2001 event is produced.
IntegrityEvents(q, d) ==
    EventsWhere(LAMBDA e : e.category = "Integrity" /\ e.query_id = q /\ e.doc_id = d)

C5_OneIntegrityEventPerDocument ==
    \A q \in Queries : LoopDone(q) =>
        \A j \in 1..Len(task[q].retrieved) :
            LET d == task[q].retrieved[j].doc_id
                logged == IntegrityEvents(q, d)
            IN  /\ Cardinality(logged) = 1
                /\ \A n \in logged : events[n].event_id = IF Triggers(d) THEN 1003 ELSE 1001
                /\ Triggers(d) =>
                      \E n \in EventsWhere(LAMBDA e : e.event_id = 2001 /\ e.doc_id = d) :
                          /\ events[n].quarantine_id \in RecordIds
                          /\ Records[events[n].quarantine_id].doc_id = d
                          /\ \A m \in logged : n < m
                \* the loop has just ended: nothing else has run since the query began
                /\ (Triggers(d) /\ task[q].pc = "step4") =>
                      /\ store[d].is_quarantined
                      /\ store[d].quarantine_id \in RecordIds
                      /\ Records[store[d].quarantine_id].doc_id = d
                      /\ Records[store[d].quarantine_id].reason = Reason(q)
                      /\ Records[store[d].quarantine_id].state = "QUARANTINED"
                /\ ~Triggers(d) =>
                      /\ \A qid \in RecordIds : Records[qid].doc_id # d
                      /\ store[d] = task[q].retrieved[j].metadata
                      /\ EventsWhere(LAMBDA e : e.event_id = 2001 /\ e.doc_id = d) = {}

\* the loop has ended on two documents, one quarantined and one kept
C5_Witness ==
    \E q \in Queries :
        /\ task[q].pc = "step4"
        /\ Len(task[q].retrieved) = 2
        /\ \E j \in 1..2 : Triggers(task[q].retrieved[j].doc_id)
        /\ \E j \in 1..2 : ~Triggers(task[q].retrieved[j].doc_id)

\* C6: with non-empty retrieval the action_taken written to lineage is "allow" iff
\* no retrieved document was quarantined, "partial" iff at least one was
\* quarantined and at least one survived, "quarantine" iff every retrieved
\* document was quarantined, and then the answer is the canned safety message.
QuarantinedIn(q) == {d \in Range(DocIds(task[q].retrieved)) : IntegrityEvents(q, d) # {} /\
                        \A n \in IntegrityEvents(q, d) : events[n].event_id = 1003}

C6_ActionTaken ==
    \A q \in Queries : (task[q].pc = "done" /\ task[q].retrieved # <<>>) =>
        \A n \in RowsOf(q) :
            LET retrieved == Range(DocIds(task[q].retrieved))
                quarantined == QuarantinedIn(q)
                action == lineage[n].action_taken
            IN  /\ action \in {"allow", "partial", "quarantine"}
                /\ action = "allow" <=> quarantined = {}
                /\ action = "partial" <=> (quarantined # {} /\ quarantined # retrieved)
                /\ action = "quarantine" <=> quarantined = retrieved
                /\ action = "quarantine" => task[q].answer = SAFETY_MESSAGE
                /\ quarantined = Range(task[q].quarantined_docs)

C6_Witness ==
    \E q \in Queries :
        /\ task[q].pc = "done"
        /\ \E n \in RowsOf(q) : lineage[n].action_taken = "partial"

\* C7: a protected query with non-empty retrieval that runs to completion appends
\* exactly one lineage row, listing every retrieved doc_id including those
\* quarantined in that query, and appends it only after every vault record and
\* vector-store flag of that query has been written.
C7_OneLineageRowAfterQuarantine ==
    \A q \in Queries :
        /\ (task[q].pc = "done" /\ task[q].retrieved # <<>>) => Cardinality(RowsOf(q)) = 1
        \* no row while the query still has documents to evaluate or to quarantine
        /\ task[q].pc # "done" => RowsOf(q) = {}
        /\ \A n \in RowsOf(q) :
              /\ lineage[n].retrieved_docs = DocIds(task[q].retrieved)
              /\ Range(task[q].quarantined_docs) \subseteq Range(lineage[n].retrieved_docs)
              /\ \A d \in Range(lineage[n].retrieved_docs) : Triggers(d) =>
                    \* the record is in the vault and mark_quarantined has written the metadata
                    /\ d \in Range(task[q].quarantined_docs)
                    /\ \E qid \in RecordIds : Records[qid].doc_id = d
                    /\ store[d].quarantine_id # EmptyQid

\* a completed query in which every retrieved document was quarantined
C7_Witness ==
    \E q \in Queries :
        /\ task[q].pc = "done"
        /\ \E n \in RowsOf(q) :
              /\ lineage[n].action_taken = "quarantine"
              /\ Len(lineage[n].retrieved_docs) = 2

\* C8: after restore_document(qid) returns, the record's state is RESTORED, its
\* audit trail has one more entry, the vector-store flag of the record's doc_id
\* is false, and a protected retrieval can return that document again.
Restored == lastOp.op = "restore" /\ lastOp.status = 200

C8_RestoreClearsFlag ==
    Restored =>
        LET qid == lastOp.quarantine_id
            before == lastOp.vault.record_json[qid]
            record == Records[qid]
        IN  /\ record.state = "RESTORED"
            /\ Len(record.audit_trail) = Len(before.audit_trail) + 1
            /\ ~store[record.doc_id].is_quarantined
            /\ \E k \in Ks, ranking \in Perms(Docs) :
                  record.doc_id \in Range(DocIds(VectorStore_retrieve(store, ranking, k, TRUE, NoFilter)))

\* the restored document was flagged, so that no protected retrieval returned it
C8_Witness ==
    /\ Restored
    /\ LET d == Records[lastOp.quarantine_id].doc_id
       IN  /\ lastOp.store[d].is_quarantined
           /\ \A k \in Ks, ranking \in Perms(Docs) :
                 d \notin Range(DocIds(VectorStore_retrieve(lastOp.store, ranking, k, TRUE, NoFilter)))

\* C9: each of quarantine_document, confirm_malicious and restore_document appends
\* exactly one audit entry, so the length of a record's audit_trail equals the
\* number of lifecycle transitions of the record: 1 after creation, plus one per
\* state change.
C9_AuditLengthCountsTransitions ==
    [][/\ \A qid \in DOMAIN vault'.record_json \ RecordIds :
             Len(vault'.record_json[qid].audit_trail) = 1
       /\ \A qid \in RecordIds :
             LET old == vault.record_json[qid]
                 new == vault'.record_json[qid]
             IN  Len(new.audit_trail) =
                     Len(old.audit_trail) + (IF new.state # old.state THEN 1 ELSE 0)]_vars

\* C10: the sequence of entries in a directory's audit.jsonl equals the
\* audit_trail sequence stored in its record.json.
C10_AuditFileMirrorsRecord ==
    \A qid \in RecordIds : vault.audit_jsonl[qid] = Records[qid].audit_trail

\* C11: confirm_malicious and restore_document called with a quarantine id that
\* has no vault directory or no record file fail with a NotFound error surfaced
\* to the caller, and leave every vault record, every vector-store flag and the
\* event log unchanged.
C11_NotFoundLeavesStateUnchanged ==
    (lastOp.op \in {"confirm", "restore"} /\ ~Exists(lastOp.vault, lastOp.quarantine_id)) =>
        /\ lastOp.status = 404
        /\ vault = lastOp.vault
        /\ store = lastOp.store
        /\ events = lastOp.events

\* C12: the event log and the lineage log are append-only: for every operation
\* of the system, demo reset included, the content of each log before the
\* operation is a prefix of its content after it.
C12_LogsAppendOnly ==
    [][IsPrefix(events, events') /\ IsPrefix(lineage, lineage')]_vars

\* C12, amended: every operation other than the demo reset leaves each log a
\* prefix of what it becomes; the demo reset removes both logs and then appends
\* event 4004 to a new event log.
C12_LogsAppendOnlyExceptReset ==
    [][\/ IsPrefix(events, events') /\ IsPrefix(lineage, lineage')
       \/ /\ lastOp'.op = "reset"
          /\ events' = log_system_event(<<>>, 4004, 0)
          /\ lineage' = <<>>]_vars

\* a demo reset has removed an event log and a lineage log that held lines
C12_Witness ==
    /\ lastOp.op = "reset"
    /\ lastOp.events # <<>>
    /\ lastOp.lineage # <<>>
    /\ Len(events) = 1
    /\ lineage = <<>>

\* C13: under any interleaving of concurrent log_event callers and concurrent
\* log_query callers, each line of events.jsonl and of query_lineage.jsonl is
\* one complete record written by one call: writes to a sink are mutually
\* exclusive and no two writers' output is interleaved within a line.
LinesBy(log, w) == {n \in 1..Len(log) : log[n].query_id = w}

C13_SinkWritesAreExclusive ==
    /\ Cardinality({w \in Writers : task[w].pc = "events_open"}) <= 1
    /\ Cardinality({w \in Writers : task[w].pc = "lineage_open"}) <= 1
    /\ \A w \in Writers : task[w].pc \in {"events_open", "lineage_open"} => running = w
    \* every call that returned wrote one line, and every line is the record of one call
    /\ \A w \in Writers :
          Cardinality(LinesBy(events, w)) + Cardinality(LinesBy(lineage, w)) = task[w].i
    /\ \A n \in 1..Len(events) :
          \E w \in Writers : events[n] = Last(log_system_event(<<>>, 4001, w))
    /\ \A n \in 1..Len(lineage) :
          \E w \in Writers, ts \in Times :
              lineage[n] = Last(log_query(<<>>, w, "alice", <<>>, <<>>, "allow", ts))

\* the calls of two writers have alternated on both sinks
C13_Witness ==
    /\ Len(events) = 2 /\ events[1].query_id # events[2].query_id
    /\ Len(lineage) = 2 /\ lineage[1].query_id # lineage[2].query_id
    /\ events[1].query_id # lineage[1].query_id

\* C14: read_events(limit, level) returns exactly the min(limit, n) most recently
\* appended events among the n parseable events of the log whose level matches
\* (all levels when level is absent), newest first; it returns the empty list
\* when the log file does not exist.
C14_ReadEventsReturnsNewestLimit ==
    call.fn = "read_events" =>
        LET Matches(line) == /\ line.kind = "json"
                             /\ (call.level = NoLevel \/ line.record.level = call.level)
            matching == SelectSeq(Reverse(call.lines), Matches)
        IN  call.result = [n \in 1..Min(call.limit, Len(matching)) |-> matching[n].record]

\* C15: analyze_impact(doc_id, lookback_hours) reports affected_queries equal to
\* the number of parseable lineage rows whose retrieved_docs contains doc_id and
\* whose timestamp is at or after now minus lookback_hours, affected_users equal
\* to the set of user_ids of exactly those rows, and a time window whose start and
\* end are the minimum and maximum timestamp of those rows.
AffectedRows ==
    {n \in 1..Len(call.lines) :
        /\ call.lines[n].kind = "json"
        /\ call.doc_id \in Range(call.lines[n].record.retrieved_docs)
        /\ call.lines[n].record.timestamp >= call.utcnow - call.lookback_hours * SECONDS_PER_HOUR}

C15_ImpactCountsRowsInWindow ==
    call.fn = "analyze_impact" =>
        LET stamps == {call.lines[n].record.timestamp : n \in AffectedRows}
        IN  /\ call.result.affected_queries = Cardinality(AffectedRows)
            /\ call.result.affected_users = {call.lines[n].record.user_id : n \in AffectedRows}
            /\ AffectedRows # {} =>
                  /\ call.result.time_window_start \in stamps
                  /\ \A t \in stamps : call.result.time_window_start <= t
                  /\ call.result.time_window_end \in stamps
                  /\ \A t \in stamps : t <= call.result.time_window_end

\* two users retrieved the document an hour apart, and one line is torn
C15_Witness ==
    /\ call.fn = "analyze_impact"
    /\ \E n \in 1..Len(call.lines) : call.lines[n].kind = "torn"
    /\ call.result.affected_queries = 2
    /\ Cardinality(call.result.affected_users) = 2
    /\ call.result.time_window_start < call.result.time_window_end

\* C16: blast-radius severity for (queries q, users u) is CRITICAL if q >= 20 or
\* u >= 10; otherwise HIGH if q >= 5 or u >= 3; otherwise MEDIUM if q >= 1 and
\* u >= 1; otherwise LOW; increasing q or u never lowers the severity in the
\* order LOW < MEDIUM < HIGH < CRITICAL.
SeverityRank(severity) ==
    CASE severity = "LOW" -> 0
      [] severity = "MEDIUM" -> 1
      [] severity = "HIGH" -> 2
      [] severity = "CRITICAL" -> 3

C16_SeverityThresholdsMonotone ==
    call.fn = "calculate_severity" =>
        LET q == call.query_count
            u == call.user_count
        IN  /\ call.result = (IF q >= 20 \/ u >= 10 THEN "CRITICAL"
                              ELSE IF q >= 5 \/ u >= 3 THEN "HIGH"
                              ELSE IF q >= 1 /\ u >= 1 THEN "MEDIUM"
                              ELSE "LOW")
            /\ \A q0 \in 0..q, u0 \in 0..u :
                  SeverityRank(calculate_severity(q0, u0)) <= SeverityRank(call.result)

\* twenty queries of a single user are CRITICAL
C16_Witness ==
    /\ call.fn = "calculate_severity"
    /\ call.query_count = 20
    /\ call.user_count = 1
    /\ call.result = "CRITICAL"

\* C17: when the lineage log does not exist, or exists but contains no row
\* matching doc_id inside the lookback window, analyze_impact returns a report
\* with affected_queries = 0, no affected users, severity LOW, and a
\* recommended_actions list consisting of the single "no affected queries found"
\* message.
C17_NoMatchGivesEmptyReport ==
    (call.fn = "analyze_impact" /\ AffectedRows = {}) =>
        /\ call.result.affected_queries = 0
        /\ call.result.affected_users = {}
        /\ call.result.severity = "LOW"
        /\ call.result.recommended_actions = <<NO_AFFECTED_QUERIES>>

\* C18: protected retrieval never returns a document whose is_quarantined flag
\* is set, never returns more than k documents, and returns only documents that
\* satisfy the metadata filter when one is given.
C18_ProtectedRetrievalFilters ==
    call.fn = "retrieve" =>
        /\ Len(call.result) <= call.k
        /\ \A j \in 1..Len(call.result) :
              /\ ~call.store[call.result[j].doc_id].is_quarantined
              /\ ~call.result[j].metadata.is_quarantined
              /\ call.metadata_filter # NoFilter =>
                    call.store[call.result[j].doc_id].cve_ids = call.metadata_filter

\* the nearest document is quarantined and k documents are returned behind it
C18_Witness ==
    /\ call.fn = "retrieve"
    /\ call.store[call.ranking[1]].is_quarantined
    /\ call.k = 2
    /\ Len(call.result) = 2

\* C19: protected retrieval returns k documents whenever at least k
\* non-quarantined documents satisfying the filter exist in the store, however
\* many quarantined documents rank closer to the query: it never returns fewer
\* than min(k, number of clean matching documents) results.
CleanMatching ==
    {d \in DOMAIN call.store :
        /\ ~call.store[d].is_quarantined
        /\ (call.metadata_filter = NoFilter \/ call.store[d].cve_ids = call.metadata_filter)}

C19_OverfetchSuffices ==
    call.fn = "retrieve" => Len(call.result) >= Min(call.k, Cardinality(CleanMatching))

\* C20: when the generation collaborator fails or times out during a protected
\* query, the query still completes normally: the error-shaped string is
\* returned as the answer and a lineage row is appended with action_taken
\* "allow" (no quarantine in the query) or "partial" (some quarantine).
GenerationFailed(q) == task[q].pc = "done" /\ q \in DOMAIN llm_calls /\ task[q].answer # GENERATED

C20_GenerationFailureStillLogsLineage ==
    \A q \in Queries :
        /\ GenerationFailed(q) =>
              /\ task[q].status = 200
              /\ task[q].answer = GENERATION_ERROR
              /\ Cardinality(RowsOf(q)) = 1
              /\ \A n \in RowsOf(q) :
                    lineage[n].action_taken =
                        IF task[q].quarantined_docs = <<>> THEN "allow" ELSE "partial"
        \* a query whose generation was called does not end without its answer
        /\ (task[q].pc = "done" /\ q \in DOMAIN llm_calls) => task[q].answer # ""

\* generation failed in a query that had quarantined a document
C20_Witness ==
    \E q \in Queries :
        /\ GenerationFailed(q)
        /\ task[q].quarantined_docs # <<>>
        /\ \E n \in RowsOf(q) : lineage[n].action_taken = "partial"

\* C21: when the generation collaborator fails or times out during a protected
\* query, a system event recording the failure is appended to the event log
\* before the query completes.
C21_GenerationFailureLogsSystemEvent ==
    \A q \in Queries : GenerationFailed(q) =>
        EventsWhere(LAMBDA e : e.category = "System" /\ e.query_id = q) # {}

\* C22: when protected retrieval returns no document, the query logs a system
\* event and returns the no-information answer with empty retrieved_docs,
\* quarantined_docs and integrity_signals; it creates no vault record, changes no
\* vector-store flag, does not call generation and appends no lineage row.
EmptyRetrieval(q) ==
    task[q].pc # "idle" /\ ~task[q].unsafe /\ task[q].status # 500 /\ task[q].retrieved = <<>>

C22_EmptyRetrievalOnlyLogsSystemEvent ==
    [][\A q \in Queries :
          /\ (task[q].pc = "idle" /\ EmptyRetrieval(q)') =>
                /\ task'[q].pc = "done" /\ task'[q].status = 200
                /\ task'[q].answer = NO_DOCUMENTS
                /\ task'[q].quarantined_docs = <<>>
                /\ task'[q].signals_map = <<>>
                /\ events' = Append(events, Event(1001, "Information", "System", "", q, 0, EmptyQid, ""))
                /\ vault' = vault
                /\ store' = store
                /\ llm_calls' = llm_calls
                /\ lineage' = lineage
          \* nor does anything happen for the query afterwards
          /\ EmptyRetrieval(q) =>
                /\ task'[q] = task[q]
                /\ q \notin DOMAIN llm_calls'
                /\ RowsOf(q)' = {}]_vars

\* every document matching the query was in quarantine, so that nothing was retrieved
C22_Witness ==
    \E q \in Queries :
        /\ EmptyRetrieval(q)
        /\ task[q].answer = NO_DOCUMENTS
        /\ RecordIds # {}
        /\ \E n \in 1..Len(events) : events[n].category = "System" /\ events[n].query_id = q

\* C23: an unsafe-mode query records lineage like a protected query: it appends
\* one QueryLineage row listing the documents it retrieved, quarantined
\* documents included, so that a later analyze_impact for such a document
\* counts that query and its user.
UnsafeServed(q) == task[q].unsafe /\ task[q].pc = "done" /\ task[q].status = 200

C23_UnsafeQueryRecordsLineage ==
    \A q \in Queries : UnsafeServed(q) =>
        /\ Cardinality(RowsOf(q)) = 1
        /\ \A n \in RowsOf(q) : lineage[n].retrieved_docs = DocIds(task[q].retrieved)
        /\ \A d \in Range(DocIds(task[q].retrieved)) :
              \A q_dir \in glob_first(vault, d) :
                  q \in Range(analyze_impact(Lines(lineage), d, LINEAGE_LOOKBACK_HOURS, now,
                                             vault, q_dir).query_details)

\* C24: when a vault record exists for doc_id, the report returned by
\* analyze_impact carries the path of the preserved content and the
\* integrity_scores and reason stored in a quarantine record whose doc_id equals
\* the requested doc_id, never those of a record of another document.
RecordsOfDoc(v, doc_id) == {qid \in DOMAIN v.record_json : v.record_json[qid].doc_id = doc_id}

C24_ReportCarriesVaultRecord ==
    (call.fn = "analyze_impact" /\ RecordsOfDoc(call.vault, call.doc_id) # {}) =>
        \E qid \in RecordsOfDoc(call.vault, call.doc_id) :
            /\ call.result.file_path = <<ContentPath(qid)>>
            /\ {"integrity_signals", "quarantine_reason"} \subseteq DOMAIN call.result
            /\ call.result["integrity_signals"] = <<call.vault.record_json[qid].integrity_scores>>
            /\ call.result["quarantine_reason"] = <<call.vault.record_json[qid].reason>>

\* C25: a quarantine record is never deleted or replaced: once
\* quarantine_document has created a record, no later quarantine_document call,
\* for the same or another document and at any time including within the same
\* second, removes or overwrites it; the only operations that modify it are
\* confirm_malicious and restore_document.
C25_RecordNeverReplaced ==
    [][\A qid \in RecordIds :
          /\ qid \in DOMAIN vault'.record_json
          /\ vault'.record_json[qid] # vault.record_json[qid] =>
                /\ lastOp'.op \in {"confirm", "restore"}
                /\ lastOp'.quarantine_id = qid]_vars

\* C26: a document with source "poisoned" whose content contains "disable
\* firewall" and "chmod 777" is quarantined by a protected query that retrieves
\* it, whatever its anomaly and semantic-drift signals are: its trust and
\* red-flag signals alone put at least 2 signals below 0.5.
C26_PoisonedDocQuarantined ==
    (/\ call.fn = "evaluate_document"
     /\ call.metadata.source = "poisoned"
     /\ call.content.flagged.security_downgrade >= 1
     /\ call.content.flagged.dangerous_permissions >= 1) =>
        /\ call.result.trust_score < SCORE_ONE \div 2
        /\ call.result.red_flag_score < SCORE_ONE \div 2
        /\ call.should_quarantine

\* C27: for every IntegritySignals value, combined_score equals
\* 0.25*trust + 0.35*red_flag + 0.15*anomaly + 0.25*semantic_drift, with weights
\* that sum to 1, so combined_score lies in [0,1] whenever the four signals do.
C27_CombinedScoreIsWeightedSum ==
    call.fn = "combined_score" =>
        /\ call.result = 25 * call.signals.trust_score + 35 * call.signals.red_flag_score
                       + 15 * call.signals.anomaly_score + 25 * call.signals.semantic_drift_score
        /\ Sum(SIGNAL_WEIGHTS, DOMAIN SIGNAL_WEIGHTS) = 100
        /\ 0 <= call.result /\ call.result <= 100 * 2 * INTEGRITY_THRESHOLD

\* trust 1.0 and anomaly 1.0 with the other two at 0.0 give 0.25 + 0.15
C27_Witness ==
    /\ call.fn = "combined_score"
    /\ call.signals = Signals(10, 0, 10, 0)
    /\ call.result = 400

\* C28: for every query q, boost factor b and every CVE identifier X extracted
\* from q, the number of occurrences of X in augment_query(q, b) equals b plus 1
\* if X occurs in q and plus 0 otherwise; when q contains no CVE identifier,
\* augment_query(q, b) = q.
C28_BoostedCount ==
    call.fn = "augment_query" =>
        /\ \A n \in 1..Len(call.cve_ids) :
              str_count(call.result, call.cve_ids[n]) =
                  call.boost_factor + (IF str_count(call.query, call.cve_ids[n]) > 0 THEN 1 ELSE 0)
        /\ call.cve_ids = <<>> => call.result = call.query

\* C28, amended: the number of occurrences of X in augment_query(q, b) equals b
\* times the number of identifiers extracted from q that contain X, plus the
\* number of occurrences of X in q; it is b + 1 when X occurs once in q and in
\* no other identifier of q; when q contains no CVE identifier,
\* augment_query(q, b) = q.
C28_BoostedCountPlusOccurrences ==
    call.fn = "augment_query" =>
        /\ \A n \in 1..Len(call.cve_ids) :
              LET X == call.cve_ids[n]
                  holding == {Y \in Range(call.cve_ids) : IsPrefix(X.number, Y.number)}
              IN  /\ str_count(call.result, X) =
                         call.boost_factor * Cardinality(holding) + str_count(call.query, X)
                  /\ (str_count(call.query, X) = 1 /\ holding = {X}) =>
                         str_count(call.result, X) = call.boost_factor + 1
        /\ call.cve_ids = <<>> => call.result = call.query

\* the query names the same identifier twice: 3 boosted copies and 2 of the query
C28_Witness ==
    /\ call.fn = "augment_query"
    /\ call.boost_factor = 3
    /\ call.query = <<CveToken(TRUE, <<1>>), Word, CveToken(TRUE, <<1>>)>>
    /\ Len(call.cve_ids) = 1
    /\ str_count(call.result, call.cve_ids[1]) = 5

\* C29: for each document quarantined during a protected query the three writes
\* happen in the order vault record, vector-store flag, quarantine event 2001;
\* hence in every reachable state a 2001 event for a quarantine id implies that
\* its vault record exists, and the document's flag was set before the event
\* was appended.
C29_VaultThenFlagThenEvent ==
    [][/\ \* the flag is written for an id whose record is in the vault already
          \A d \in DOMAIN store :
              (store'[d] # store[d] /\ store'[d].is_quarantined) =>
                  /\ store'[d].quarantine_id \in RecordIds
                  /\ Records[store'[d].quarantine_id].doc_id = d
                  /\ vault' = vault /\ events' = events
       /\ \* event 2001 is appended when the record and the flag are in place
          (Len(events') = Len(events) + 1 /\ Last(events').event_id = 2001) =>
              LET e == Last(events')
              IN  /\ e.quarantine_id \in RecordIds
                  /\ Records[e.quarantine_id].doc_id = e.doc_id
                  /\ store[e.doc_id].is_quarantined
                  /\ store[e.doc_id].quarantine_id = e.quarantine_id
                  /\ vault' = vault /\ store' = store
       /\ \* the record of a logged quarantine stays in the vault
          \A n \in 1..Len(events') :
              events'[n].event_id = 2001 =>
                  /\ events'[n].quarantine_id \in DOMAIN vault'.record_json
                  /\ vault'.record_json[events'[n].quarantine_id].doc_id = events'[n].doc_id]_vars

\* event 2001 has just been logged for the document the query is quarantining
C29_Witness ==
    \E q \in Queries :
        /\ task[q].pc = "log_integrity_check"
        /\ Last(events).event_id = 2001
        /\ Last(events).quarantine_id = task[q].record_id
        /\ store[Last(events).doc_id].quarantine_id = task[q].record_id
        /\ task[q].record_id \in RecordIds

\* C30: within one protected query, events appear in the event log in the order
\* integrity check before quarantine entry: for every document quarantined by
\* the query, its integrity event 1003 is appended before its quarantine event
\* 2001.
C30_IntegrityEventBeforeQuarantineEvent ==
    \A q \in Queries :
        \A n \in 1..Len(events) :
            (/\ events[n].event_id = 2001
             /\ events[n].quarantine_id \in RecordIds
             /\ Records[events[n].quarantine_id].reason = Reason(q)) =>
                \E m \in 1..(n - 1) :
                    /\ events[m].event_id = 1003
                    /\ events[m].query_id = q
                    /\ events[m].doc_id = events[n].doc_id

\* the request of task q has ended in an error or was cancelled
Interrupted(q) == task[q].pc \in {"failed", "cancelled"}

\* C31: a protected query that fails or is cancelled after quarantine_document has
\* completed leaves the vault as it was: the step that ends the query changes
\* nothing in the vault, and in every step every record of the vault is kept, with
\* its content, a record file that opens its audit trail with the quarantine by the
\* system, and the first line of its audit file
C31_VaultRecordSurvivesFailure ==
    [][/\ \A q \in Queries : ~Interrupted(q) /\ Interrupted(q)' => vault' = vault
       /\ \A qid \in DOMAIN vault.record_json :
            /\ qid \in DOMAIN vault'.record_json
            /\ vault'.record_json[qid].doc_id = vault.record_json[qid].doc_id
            /\ vault'.record_json[qid].original_content = vault.record_json[qid].original_content
            /\ vault'.record_json[qid].audit_trail # <<>>
            /\ vault'.record_json[qid].audit_trail[1].action = "QUARANTINED"
            /\ vault'.record_json[qid].audit_trail[1].actor = "system"
            /\ qid \in DOMAIN vault'.content_txt
            /\ vault'.content_txt[qid] = vault.content_txt[qid]
            /\ qid \in DOMAIN vault'.audit_jsonl
            /\ vault'.audit_jsonl[qid][1] = vault.audit_jsonl[qid][1]]_vars

\* a query failed at mark_quarantined, its record is in the vault and the document
\* is not flagged; another was cancelled after it had quarantined a document
C31_Witness ==
    \E q \in Queries, p \in Queries :
        /\ task[q].pc = "failed"
        /\ task[q].record_id # EmptyQid
        /\ Exists(vault, task[q].record_id)
        /\ ~store[task[q].record_id[2]].is_quarantined
        /\ task[p].pc = "cancelled"
        /\ task[p].quarantined_docs # <<>>

\* the records of document d that are not RESTORED
ActiveRecords(d) ==
    {qid \in RecordIds : Records[qid].doc_id = d /\ Records[qid].state \in {"QUARANTINED", "CONFIRMED_MALICIOUS"}}

\* C32: after a query was interrupted between the vault write and the vector-store
\* flag, the next protected query that retrieves the document quarantines it again,
\* and the flagged document then has a single active quarantine record (stated
\* for the runs without analyst actions, where nothing else adds or changes records)
C32_ReconvergesToOneActiveRecord ==
    ops = 0 =>
        \A d \in Docs :
            store[d].is_quarantined =>
                /\ ActiveRecords(d) = {store[d].quarantine_id}
                /\ Cardinality(ActiveRecords(d)) = 1

\* what read_events returns for the event log as written, for a limit and a level
ReadBack(limit, level) == read_events(Lines(events), limit, level)
ReadLimits == 1..(MaxWrites * MaxQueries)
ReadLevels == {NoLevel, "Information", "Error"}

\* C33: read_events returns events in strictly decreasing timestamp order, whatever
\* the interleaving of the writers
C33_StrictlyDecreasingTimestamps ==
    \A limit \in ReadLimits, level \in ReadLevels :
        LET found == ReadBack(limit, level)
        IN  \A m \in 1..Len(found), n \in 1..Len(found) :
                m < n => found[m].timestamp > found[n].timestamp

\* C33 (amended): read_events returns events in non-increasing timestamp order,
\* whatever the interleaving of the writers, and the timestamps of the log never
\* decrease along the file
C33_NonIncreasingTimestamps ==
    /\ \A m \in 1..Len(events), n \in 1..Len(events) :
            m < n => events[m].timestamp <= events[n].timestamp
    /\ \A limit \in ReadLimits, level \in ReadLevels :
            LET found == ReadBack(limit, level)
            IN  \A m \in 1..Len(found), n \in 1..Len(found) :
                    m < n => found[m].timestamp >= found[n].timestamp

\* two writers have alternated, the clock has advanced between two of the events,
\* and read_events returns all four
C33_Witness ==
    /\ Len(events) = 4
    /\ events[1].query_id # events[2].query_id
    /\ events[2].query_id # events[3].query_id
    /\ events[1].timestamp < events[4].timestamp
    /\ Len(ReadBack(4, NoLevel)) = 4

\* the file with every line that does not parse removed; the file itself remains,
\* and where no line is left it reads as a file holding one blank line does
Parseable(lines) ==
    LET kept == SelectSeq(lines, LAMBDA line : line.kind = "json")
    IN  IF lines # <<>> /\ kept = <<>> THEN <<BlankLine(lines[1].record)>> ELSE kept

\* C34: on any log content read_events and analyze_impact do not raise, and return
\* what they return on the log with every unparseable line removed
C34_MalformedLinesNeverAbort ==
    /\ call.fn = "read_events" /\ "raised" \in DOMAIN call =>
          /\ ~call.raised
          /\ call.result = read_events(Parseable(call.lines), call.limit, call.level)
    /\ call.fn = "analyze_impact" /\ "raised" \in DOMAIN call =>
          /\ ~call.raised
          /\ call.result = analyze_impact(Parseable(call.lines), call.doc_id, call.lookback_hours,
                                          call.utcnow, EmptyVault, None)

\* on the files that decode as text both read paths skip the lines that do not parse
ReadPathsSkipTextLines ==
    /\ call.fn = "read_events" /\ "raised" \in DOMAIN call /\ decodes(call.lines) =>
          /\ ~call.raised
          /\ call.result = read_events(Parseable(call.lines), call.limit, call.level)
    /\ call.fn = "analyze_impact" /\ "raised" \in DOMAIN call /\ decodes(call.lines) =>
          /\ ~call.raised
          /\ call.result = analyze_impact(Parseable(call.lines), call.doc_id, call.lookback_hours,
                                          call.utcnow, EmptyVault, None)

\* the event ids of a category
EventIdRange(category) ==
    CASE category = "Integrity" -> 1001..1999
      [] category = "Quarantine" -> 2001..2999
      [] category = "BlastRadius" -> 3001..3999
      [] category = "System" -> 4001..4999

\* C35: every event of the event log has an event_id in the range of its category
C35_EventIdInCategoryRange ==
    \A n \in 1..Len(events) : events[n].event_id \in EventIdRange(events[n].category)

\* C36: the subscriber of the event stream is sent no event twice, and after a poll
\* it has been sent every event the log held at that poll that was appended after
\* the initial batch, whatever the number of events in the log when it connected
C36_StreamYieldsEachEventOnce ==
    call.fn = "event_stream" =>
        /\ \A m \in 1..Len(call.yielded), n \in 1..Len(call.yielded) :
                m # n => call.yielded[m] # call.yielded[n]
        /\ call.polls > 0 =>
                \A n \in 1..Min(call.last_count, Len(events)) :
                    events[n] \in call.present \/ events[n] \in Range(call.yielded)

\* the table value of key k
TableValue(k) == (CHOOSE e \in Range(TRUST_SOURCES) : e.source = k).score

\* the keys of the table that are a substring of s or of which s is a substring,
\* in table order
PartialMatches(s) ==
    SelectSeq(TRUST_SOURCES, LAMBDA e : SubstringOf(e.source, s) \/ SubstringOf(s, e.source))

\* C37: TrustScorer.score takes s = the lowercased source, "unknown" for an absent
\* or empty source, and returns the table value of s, else that of the first key
\* in table order that contains s or is contained in it, else that of the
\* category, else that of "unknown"
C37_TrustScoreLookup ==
    call.fn = "TrustScorer.score" =>
        LET md == call.metadata
            given == IF "source" \in DOMAIN md THEN md.source ELSE ""
            s == IF given = "" THEN "unknown" ELSE str_lower(given)
            category == IF "category" \in DOMAIN md THEN md.category ELSE ""
        IN  call.result =
                IF s \in TableSources THEN TableValue(s)
                ELSE IF PartialMatches(s) # <<>> THEN PartialMatches(s)[1].score
                ELSE IF category \in TableSources THEN TableValue(category)
                ELSE TableValue("unknown")

\* no request is being served: every query task is idle or has returned
Quiescent == running = 0 /\ \A q \in Queries : task[q].pc \in {"idle", "done"}

\* C38: when no operation is in progress, a document is flagged is_quarantined in
\* the vector store if and only if the vault holds a record of it in state
\* QUARANTINED or CONFIRMED_MALICIOUS
C38_FlagIffActiveRecord ==
    Quiescent => \A d \in Docs : store[d].is_quarantined <=> ActiveRecords(d) # {}

\* C39: an audit entry appended by confirm_malicious or restore_document records as
\* previous_state the state the record had before the call, which is the state the
\* entry before it led to (QUARANTINED for a first analyst action)
C39_PreviousStateIsStateBefore ==
    \A qid \in RecordIds :
        LET trail == Records[qid].audit_trail
        IN  \A n \in 2..Len(trail) : trail[n].previous_state = trail[n - 1].action

\* the fields of a record that an analyst action leaves alone
FrameFields ==
    {"quarantine_id", "doc_id", "quarantined_at", "reason", "integrity_scores", "original_content", "metadata"}

====
